---- MODULE Spec2Model ----
(***************************************************************************)
(* A model of the TCG event-log parser: the event-data decoders of         *)
(* eventdata.go and efi.go, the spec-id parsers, and the replay engine     *)
(* that folds the recorded digests into the PCR accumulators.              *)
(*                                                                         *)
(* Byte strings are sequences of naturals 0..255; a reader is a byte       *)
(* string and the number of bytes already consumed (pos).                  *)
(***************************************************************************)
EXTENDS Integers, Sequences, FiniteSets, TLC

VARIABLES pc, inp, res, log, idx, pcr, validated, behaviour

vars == <<pc, inp, res, log, idx, pcr, validated, behaviour>>

(***************************************************************************)
(* Bounds of the model.                                                    *)
(***************************************************************************)
\* declared digestSizes entries in a generated spec-id payload
MaxAlgs == 2
\* bytes removed from the end of a generated payload
MaxCut == 2

(***************************************************************************)
(* Binary reader primitives (encoding/binary, io.ReadFull on a             *)
(* bytes.Reader).                                                          *)
(***************************************************************************)
Take(s, n) == SubSeq(s, 1, n)

Drop(s, n) == SubSeq(s, n + 1, Len(s))

\* io.ReadFull / binary.Read succeed iff n more bytes are available
CanRead(data, pos, n) == pos + n <= Len(data)

ReadBytes(data, pos, n) == SubSeq(data, pos + 1, pos + n)

\* A length beyond every byte string of the model: a decoded 32- or 64-bit
\* field whose high bytes are set is only ever compared with the number of
\* bytes left, so it saturates here instead of overflowing.
HugeLen == 1073741824

U8(data, pos) == data[pos + 1]

U16LE(data, pos) == data[pos + 1] + 256 * data[pos + 2]

U32LE(data, pos) ==
    IF data[pos + 4] >= 64
    THEN HugeLen
    ELSE data[pos + 1] + 256 * data[pos + 2] + 65536 * data[pos + 3]
         + 16777216 * data[pos + 4]

U64LE(data, pos) ==
    IF \E k \in 5..8 : data[pos + k] # 0
    THEN HugeLen
    ELSE U32LE(data, pos)

\* little-endian encodings, used to assemble payloads
LE16(n) == <<n % 256, (n \div 256) % 256>>

LE32(n) == <<n % 256, (n \div 256) % 256, (n \div 65536) % 256, (n \div 16777216) % 256>>

LE64(n) == LE32(n) \o <<0, 0, 0, 0>>

(***************************************************************************)
(* Event data values.  Nil is Go's nil EventData.                          *)
(***************************************************************************)
Nil == [kind |-> "nil"]

SigSpecIdEvent00 == <<83, 112, 101, 99, 32, 73, 68, 32, 69, 118, 101, 110, 116, 48, 48, 0>>

SigSpecIdEvent02 == <<83, 112, 101, 99, 32, 73, 68, 32, 69, 118, 101, 110, 116, 48, 50, 0>>

SigSpecIdEvent03 == <<83, 112, 101, 99, 32, 73, 68, 32, 69, 118, 101, 110, 116, 48, 51, 0>>

SigStartupLocality == <<83, 116, 97, 114, 116, 117, 112, 76, 111, 99, 97, 108, 105, 116, 121, 0>>

\* the built-in registry: algorithm id -> digest size
knownAlgorithms == (4 :> 20) @@ (11 :> 32) @@ (12 :> 48) @@ (13 :> 64) @@ (18 :> 32)

(***************************************************************************)
(* eventdata.go: the spec-id parsers.  st is the SpecIdEventData built by  *)
(* parseSpecIdEvent, pos the reader's position after the common header.    *)
(***************************************************************************)
\* vendorInfoSize: u8, vendorInfo: [u8; vendorInfoSize]
ReadVendorInfo(data, pos, st) ==
    IF ~CanRead(data, pos, 1) THEN Nil
    ELSE IF ~CanRead(data, pos + 1, U8(data, pos)) THEN Nil
    ELSE [st EXCEPT !.VendorInfo = ReadBytes(data, pos + 1, U8(data, pos))]

parsePCClientSpecIdEvent(data, pos, st) ==
    IF ~CanRead(data, pos, 1) THEN Nil
    ELSE ReadVendorInfo(data, pos + 1, [st EXCEPT !.Spec = "SpecPCClient"])

legacy_parseEFI_1_2_SpecIdEvent(data, pos, st) ==
    IF ~CanRead(data, pos, 1) THEN Nil
    ELSE ReadVendorInfo(data, pos + 1,
             [st EXCEPT !.Spec = "SpecEFI_1_2", !.uintnSize = U8(data, pos)])

\* the digestSizes loop of eventdata.go: n entries left, acc the entries read;
\* no entry is checked against the registry
RECURSIVE legacy_ReadDigestSizes(_, _, _, _)
legacy_ReadDigestSizes(data, pos, n, acc) ==
    IF n = 0 THEN [ok |-> TRUE, pos |-> pos, sizes |-> acc]
    ELSE IF ~CanRead(data, pos, 2) THEN [ok |-> FALSE]
    ELSE IF ~CanRead(data, pos + 2, 2) THEN [ok |-> FALSE]
    ELSE legacy_ReadDigestSizes(data, pos + 4, n - 1,
             Append(acc, [AlgorithmId |-> U16LE(data, pos),
                          DigestSize |-> U16LE(data, pos + 2)]))

legacy_parseEFI_2_SpecIdEvent(data, pos, st) ==
    IF ~CanRead(data, pos, 1) THEN Nil
    ELSE IF ~CanRead(data, pos + 1, 4) THEN Nil
    ELSE LET r == legacy_ReadDigestSizes(data, pos + 5, U32LE(data, pos + 1), <<>>)
         IN  IF ~r.ok THEN Nil
             ELSE ReadVendorInfo(data, r.pos,
                      [st EXCEPT !.Spec = "SpecEFI_2", !.uintnSize = U8(data, pos),
                                 !.DigestSizes = r.sizes])

parseSpecIdEvent(data) ==
    IF ~CanRead(data, 0, 16) THEN Nil
    ELSE IF ~CanRead(data, 16, 4) THEN Nil
    ELSE IF ~CanRead(data, 20, 1) THEN Nil
    ELSE IF ~CanRead(data, 21, 1) THEN Nil
    ELSE IF ~CanRead(data, 22, 1) THEN Nil
    ELSE LET signature == ReadBytes(data, 0, 16)
             eventData == [kind |-> "SpecId", data |-> data, Spec |-> "",
                           PlatformClass |-> U32LE(data, 16),
                           SpecVersionMinor |-> U8(data, 20),
                           SpecVersionMajor |-> U8(data, 21),
                           SpecErrata |-> U8(data, 22),
                           uintnSize |-> 0, DigestSizes |-> <<>>,
                           VendorInfo |-> <<>>]
         IN  CASE signature = SigSpecIdEvent00 -> parsePCClientSpecIdEvent(data, 23, eventData)
               [] signature = SigSpecIdEvent02 -> legacy_parseEFI_1_2_SpecIdEvent(data, 23, eventData)
               [] signature = SigSpecIdEvent03 -> legacy_parseEFI_2_SpecIdEvent(data, 23, eventData)
               [] OTHER -> Nil

\* variant: the spec-id parser applied to a NoAction event of any PCR
makeEventDataNoAction_anyPCR(pcrIndex, data) == parseSpecIdEvent(data)

makeEventDataNoAction(pcrIndex, data) ==
    IF pcrIndex = 0 THEN parseSpecIdEvent(data) ELSE Nil

(***************************************************************************)
(* efi.go: parseEFI_2_SpecIdEvent.  The result is the error ("" for nil)   *)
(* and the SpecIdEventData as far as it was filled in.                     *)
(***************************************************************************)
RECURSIVE ReadDigestSizes(_, _, _, _)
ReadDigestSizes(data, pos, n, acc) ==
    IF n = 0 THEN [err |-> "", pos |-> pos, sizes |-> acc]
    ELSE IF ~CanRead(data, pos, 2) THEN [err |-> "SpecIdEventReadError"]
    ELSE IF ~CanRead(data, pos + 2, 2) THEN [err |-> "SpecIdEventReadError"]
    ELSE LET algorithmId == U16LE(data, pos)
             digestSize == U16LE(data, pos + 2)
         IN  IF algorithmId \in DOMAIN knownAlgorithms
                /\ knownAlgorithms[algorithmId] # digestSize
             THEN [err |-> "InvalidSpecIdEventError: digestSize"]
             ELSE ReadDigestSizes(data, pos + 4, n - 1,
                      Append(acc, [AlgorithmId |-> algorithmId, DigestSize |-> digestSize]))

parseEFI_2_SpecIdEvent(data, pos, st) ==
    IF ~CanRead(data, pos, 1) THEN [err |-> "SpecIdEventReadError"]
    ELSE IF ~CanRead(data, pos + 1, 4) THEN [err |-> "SpecIdEventReadError"]
    ELSE IF U32LE(data, pos + 1) < 1
         THEN [err |-> "InvalidSpecIdEventError: numberOfAlgorithms is zero"]
    ELSE LET r == ReadDigestSizes(data, pos + 5, U32LE(data, pos + 1), <<>>)
         IN  IF r.err # "" THEN [err |-> r.err]
             ELSE IF ~CanRead(data, r.pos, 1) THEN [err |-> "SpecIdEventReadError"]
             ELSE IF ~CanRead(data, r.pos + 1, U8(data, r.pos))
                  THEN [err |-> "SpecIdEventReadError"]
             ELSE [err |-> "",
                   eventData |-> [st EXCEPT !.Spec = "SpecEFI_2",
                                            !.uintnSize = U8(data, pos),
                                            !.DigestSizes = r.sizes,
                                            !.VendorInfo =
                                                ReadBytes(data, r.pos + 1, U8(data, r.pos))]]

(***************************************************************************)
(* efi.go: UTF-16 extraction.  A loop state s is the reader position, the  *)
(* characters still to read (i), the code units emitted (out) and whether  *)
(* a read failed (err).                                                    *)
(***************************************************************************)
surr1 == 55296

surr2 == 56320

surr3 == 57344

\* variant: the rewind is by one code unit (Seek(-2))
utf16Iteration_seekTwo(data, s) ==
    IF ~CanRead(data, s.pos, 2) THEN [s EXCEPT !.err = TRUE]
    ELSE LET c == U16LE(data, s.pos)
         IN  IF c >= surr1 /\ c < surr2
             THEN IF ~CanRead(data, s.pos + 2, 2) THEN [s EXCEPT !.err = TRUE]
                  ELSE LET c2 == U16LE(data, s.pos + 2)
                       IN  IF c2 < surr2 \/ c2 >= surr3
                           THEN [pos |-> s.pos + 4 - 2, i |-> s.i - 1,
                                 out |-> Append(s.out, c), err |-> FALSE]
                           ELSE [pos |-> s.pos + 4, i |-> s.i - 1,
                                 out |-> s.out \o <<c, c2>>, err |-> FALSE]
             ELSE [pos |-> s.pos + 2, i |-> s.i - 1,
                   out |-> Append(s.out, c), err |-> FALSE]

\* variant: the high-surrogate test is c >= surr1 && c <= surr2
utf16Iteration_lowAsHigh(data, s) ==
    IF ~CanRead(data, s.pos, 2) THEN [s EXCEPT !.err = TRUE]
    ELSE LET c == U16LE(data, s.pos)
         IN  IF c >= surr1 /\ c <= surr2
             THEN IF ~CanRead(data, s.pos + 2, 2) THEN [s EXCEPT !.err = TRUE]
                  ELSE LET c2 == U16LE(data, s.pos + 2)
                       IN  IF c2 < surr2 \/ c2 >= surr3
                           THEN [pos |-> s.pos + 4 - 1, i |-> s.i - 1,
                                 out |-> Append(s.out, c), err |-> FALSE]
                           ELSE [pos |-> s.pos + 4, i |-> s.i - 1,
                                 out |-> s.out \o <<c, c2>>, err |-> FALSE]
             ELSE [pos |-> s.pos + 2, i |-> s.i - 1,
                   out |-> Append(s.out, c), err |-> FALSE]

\* one iteration of the for loop of extractUTF16Buffer
utf16Iteration(data, s) ==
    IF ~CanRead(data, s.pos, 2) THEN [s EXCEPT !.err = TRUE]
    ELSE LET c == U16LE(data, s.pos)
         IN  IF c >= surr1 /\ c < surr2
             THEN IF ~CanRead(data, s.pos + 2, 2) THEN [s EXCEPT !.err = TRUE]
                  ELSE LET c2 == U16LE(data, s.pos + 2)
                       IN  IF c2 < surr2 \/ c2 >= surr3
                           THEN \* stream.Seek(-1, io.SeekCurrent); continue
                                [pos |-> s.pos + 4 - 1, i |-> s.i - 1,
                                 out |-> Append(s.out, c), err |-> FALSE]
                           ELSE [pos |-> s.pos + 4, i |-> s.i - 1,
                                 out |-> s.out \o <<c, c2>>, err |-> FALSE]
             ELSE [pos |-> s.pos + 2, i |-> s.i - 1,
                   out |-> Append(s.out, c), err |-> FALSE]

RECURSIVE utf16Loop(_, _)
utf16Loop(data, s) ==
    IF s.err \/ s.i = 0 THEN s ELSE utf16Loop(data, utf16Iteration(data, s))

extractUTF16Buffer(data, pos, nchars) ==
    utf16Loop(data, [pos |-> pos, i |-> nchars, out |-> <<>>, err |-> FALSE])

\* unicode/utf16.Decode: the runes of a code-unit sequence
RECURSIVE utf16Decode(_)
utf16Decode(u) ==
    IF u = <<>> THEN <<>>
    ELSE IF Len(u) >= 2 /\ u[1] >= surr1 /\ u[1] < surr2 /\ u[2] >= surr2 /\ u[2] < surr3
         THEN <<65536 + (u[1] - surr1) * 1024 + (u[2] - surr2)>> \o utf16Decode(Drop(u, 2))
    ELSE IF u[1] >= surr1 /\ u[1] < surr3
         THEN <<65533>> \o utf16Decode(Tail(u))
    ELSE <<u[1]>> \o utf16Decode(Tail(u))

(***************************************************************************)
(* EFIGUID.  A field holds the hexadecimal byte pairs of its value, most   *)
(* significant first, which is what %08x / %04x / %012x print.             *)
(***************************************************************************)
\* variant: D is read little-endian like A, B and C
decodeEFIGUID_littleEndianD(data, pos) ==
    IF ~CanRead(data, pos, 16) THEN [ok |-> FALSE]
    ELSE [ok |-> TRUE,
          A |-> <<data[pos + 4], data[pos + 3], data[pos + 2], data[pos + 1]>>,
          B |-> <<data[pos + 6], data[pos + 5]>>,
          C |-> <<data[pos + 8], data[pos + 7]>>,
          D |-> <<data[pos + 10], data[pos + 9]>>,
          E |-> ReadBytes(data, pos + 10, 6)]

\* efi.go: A, B, C little-endian, D big-endian, E six bytes
decodeEFIGUID(data, pos) ==
    IF ~CanRead(data, pos, 4) \/ ~CanRead(data, pos + 4, 2) \/ ~CanRead(data, pos + 6, 2)
       \/ ~CanRead(data, pos + 8, 2) \/ ~CanRead(data, pos + 10, 6)
    THEN [ok |-> FALSE]
    ELSE [ok |-> TRUE,
          A |-> <<data[pos + 4], data[pos + 3], data[pos + 2], data[pos + 1]>>,
          B |-> <<data[pos + 6], data[pos + 5]>>,
          C |-> <<data[pos + 8], data[pos + 7]>>,
          D |-> <<data[pos + 9], data[pos + 10]>>,
          E |-> ReadBytes(data, pos + 10, 6)]

\* eventdata.go: Data1, Data2, Data3 in the log's byte order (little-endian),
\* Data4 eight bytes
readEFIGUID(data, pos) ==
    IF ~CanRead(data, pos, 4) \/ ~CanRead(data, pos + 4, 2) \/ ~CanRead(data, pos + 6, 2)
       \/ ~CanRead(data, pos + 8, 8)
    THEN [ok |-> FALSE]
    ELSE [ok |-> TRUE,
          Data1 |-> <<data[pos + 4], data[pos + 3], data[pos + 2], data[pos + 1]>>,
          Data2 |-> <<data[pos + 6], data[pos + 5]>>,
          Data3 |-> <<data[pos + 8], data[pos + 7]>>,
          Data4 |-> ReadBytes(data, pos + 8, 8)]

(***************************************************************************)
(* make([]byte, n) with n a decoded u64: the runtime aborts the process    *)
(* when n is too large for a slice (n >= 2^48).                            *)
(***************************************************************************)
Panic == [kind |-> "panic"]

MakeSlicePanics(data, pos) == data[pos + 7] # 0 \/ data[pos + 8] # 0

(***************************************************************************)
(* efi.go: decodeEventDataEFIVariableImpl.  n is the number of bytes the   *)
(* decoder consumed (bytesRead).                                           *)
(***************************************************************************)
\* the reads up to variableDataLength; TRUE iff all of them succeed
EFIVariableHeaderOK(data) ==
    decodeEFIGUID(data, 0).ok /\ CanRead(data, 16, 8) /\ CanRead(data, 24, 8)

\* what follows extractUTF16Buffer, whose final loop state is utf16Name
EFIVariableAfterName(data, utf16Name) ==
    LET variableDataLength == U64LE(data, 24)
    IN  IF utf16Name.err THEN Nil
        ELSE IF MakeSlicePanics(data, 24) THEN Panic
        ELSE IF ~CanRead(data, utf16Name.pos, variableDataLength) THEN Nil
        ELSE [kind |-> "EFIVariable", data |-> data,
              VariableName |-> decodeEFIGUID(data, 0),
              UnicodeName |-> utf16Decode(utf16Name.out),
              VariableData |-> ReadBytes(data, utf16Name.pos, variableDataLength),
              n |-> utf16Name.pos + variableDataLength]

decodeEventDataEFIVariableImpl(data) ==
    IF ~EFIVariableHeaderOK(data) THEN Nil
    ELSE EFIVariableAfterName(data, extractUTF16Buffer(data, 32, U64LE(data, 16)))

(***************************************************************************)
(* eventdata.go: the event-data decoders behind makeEventData.             *)
(***************************************************************************)
HasPrefix(s, prefix) == Len(s) >= Len(prefix) /\ Take(s, Len(prefix)) = prefix

\* strings.TrimSuffix(str, "\x00")
TrimSuffixNUL(s) == IF Len(s) > 0 /\ s[Len(s)] = 0 THEN Take(s, Len(s) - 1) ELSE s

\* variant: only the value 0 is a normal separator
makeEventDataSeparator_zeroOnly(data) ==
    IF Len(data) # 4 THEN Nil
    ELSE [kind |-> "Separator", data |-> data,
          Type |-> IF data = <<0, 0, 0, 0>>
                   THEN "SeparatorEventTypeNormal"
                   ELSE "SeparatorEventTypeError"]

\* validNormalSeparatorValues = {0, math.MaxUint32}, compared as the four
\* bytes of the value
makeEventDataSeparator(data) ==
    IF Len(data) # 4 THEN Nil
    ELSE [kind |-> "Separator", data |-> data,
          Type |-> IF data = <<0, 0, 0, 0>> \/ data = <<255, 255, 255, 255>>
                   THEN "SeparatorEventTypeNormal"
                   ELSE "SeparatorEventTypeError"]

makeEventDataAction(data) ==
    [kind |-> "AsciiString", data |-> data, informational |-> FALSE]

\* "kernel_cmdline: "
kernelCmdlinePrefix == <<107, 101, 114, 110, 101, 108, 95, 99, 109, 100, 108, 105, 110, 101, 58, 32>>

\* "grub_cmd: "
grubCmdPrefix == <<103, 114, 117, 98, 95, 99, 109, 100, 58, 32>>

\* variant: the trailing NUL is kept
makeEventDataIPL_keepNUL(pcrIndex, data) ==
    CASE pcrIndex = 8 ->
             IF HasPrefix(data, kernelCmdlinePrefix)
             THEN [kind |-> "KernelCmdline", data |-> data,
                   Cmdline |-> Drop(data, Len(kernelCmdlinePrefix))]
             ELSE IF HasPrefix(data, grubCmdPrefix)
             THEN [kind |-> "GrubCmd", data |-> data,
                   Cmd |-> Drop(data, Len(grubCmdPrefix))]
             ELSE Nil
      [] pcrIndex = 9 -> [kind |-> "AsciiString", data |-> data, informational |-> TRUE]
      [] OTHER -> Nil

\* variant: a PCR 9 string is not informational
makeEventDataIPL_measuredPCR9(pcrIndex, data) ==
    CASE pcrIndex = 8 ->
             IF HasPrefix(data, kernelCmdlinePrefix)
             THEN [kind |-> "KernelCmdline", data |-> data,
                   Cmdline |-> TrimSuffixNUL(Drop(data, Len(kernelCmdlinePrefix)))]
             ELSE IF HasPrefix(data, grubCmdPrefix)
             THEN [kind |-> "GrubCmd", data |-> data,
                   Cmd |-> TrimSuffixNUL(Drop(data, Len(grubCmdPrefix)))]
             ELSE Nil
      [] pcrIndex = 9 -> [kind |-> "AsciiString", data |-> data, informational |-> FALSE]
      [] OTHER -> Nil

makeEventDataIPL(pcrIndex, data) ==
    CASE pcrIndex = 8 ->
             IF HasPrefix(data, kernelCmdlinePrefix)
             THEN [kind |-> "KernelCmdline", data |-> data,
                   Cmdline |-> TrimSuffixNUL(Drop(data, Len(kernelCmdlinePrefix)))]
             ELSE IF HasPrefix(data, grubCmdPrefix)
             THEN [kind |-> "GrubCmd", data |-> data,
                   Cmd |-> TrimSuffixNUL(Drop(data, Len(grubCmdPrefix)))]
             ELSE Nil
      [] pcrIndex = 9 -> [kind |-> "AsciiString", data |-> data, informational |-> TRUE]
      [] OTHER -> Nil

\* variant: the variable data is read where the name starts
makeEventDataEFIVariable_dataAtName(data) ==
    LET guid == readEFIGUID(data, 0)
    IN  IF ~guid.ok THEN Nil
        ELSE IF ~CanRead(data, 16, 8) THEN Nil
        ELSE IF ~CanRead(data, 24, 8) THEN Nil
        ELSE LET unicodeNameLength == U64LE(data, 16)
                 variableDataLength == U64LE(data, 24)
                 utf16Name == extractUTF16Buffer(data, 32, unicodeNameLength)
             IN  IF utf16Name.err THEN Nil
                 ELSE IF MakeSlicePanics(data, 24) THEN Panic
                 ELSE IF ~CanRead(data, utf16Name.pos, variableDataLength) THEN Nil
                 ELSE [kind |-> "EFIVariable", data |-> data,
                       VariableName |-> guid,
                       UnicodeName |-> utf16Decode(utf16Name.out),
                       VariableData |-> ReadBytes(data, 32, variableDataLength)]

\* decodeUTF16ToString is extractUTF16Buffer followed by utf16.Decode
makeEventDataEFIVariable(data) ==
    LET guid == readEFIGUID(data, 0)
    IN  IF ~guid.ok THEN Nil
        ELSE IF ~CanRead(data, 16, 8) THEN Nil
        ELSE IF ~CanRead(data, 24, 8) THEN Nil
        ELSE LET unicodeNameLength == U64LE(data, 16)
                 variableDataLength == U64LE(data, 24)
                 utf16Name == extractUTF16Buffer(data, 32, unicodeNameLength)
             IN  IF utf16Name.err THEN Nil
                 ELSE IF MakeSlicePanics(data, 24) THEN Panic
                 ELSE IF ~CanRead(data, utf16Name.pos, variableDataLength) THEN Nil
                 ELSE [kind |-> "EFIVariable", data |-> data,
                       VariableName |-> guid,
                       UnicodeName |-> utf16Decode(utf16Name.out),
                       VariableData |-> ReadBytes(data, utf16Name.pos, variableDataLength)]

efiDevicePathNodeEoH == 127

\* eventdata.go readDevicePathNode: length -= 4 on a uint16
legacy_readDevicePathNode(data, pos) ==
    IF ~CanRead(data, pos, 1) \/ ~CanRead(data, pos + 1, 1) \/ ~CanRead(data, pos + 2, 2)
    THEN [ok |-> FALSE]
    ELSE LET length == (U16LE(data, pos + 2) - 4) % 65536
         IN  IF length > 0 /\ ~CanRead(data, pos + 4, length) THEN [ok |-> FALSE]
             ELSE [ok |-> TRUE, pos |-> pos + 4 + length,
                   node |-> [t |-> U8(data, pos), subType |-> U8(data, pos + 1),
                             data |-> ReadBytes(data, pos + 4, length)]]

\* eventdata.go readDevicePath: nil unless an End-of-Hardware node is read
RECURSIVE legacy_readDevicePathFrom(_, _, _)
legacy_readDevicePathFrom(data, pos, nodes) ==
    LET r == legacy_readDevicePathNode(data, pos)
    IN  IF ~r.ok THEN [ok |-> FALSE]
        ELSE IF r.node.t = efiDevicePathNodeEoH THEN [ok |-> TRUE, nodes |-> nodes]
        ELSE legacy_readDevicePathFrom(data, r.pos, Append(nodes, r.node))

legacy_readDevicePath(data) == legacy_readDevicePathFrom(data, 0, <<>>)

makeEventDataImageLoad(data) ==
    IF ~CanRead(data, 0, 8) \/ ~CanRead(data, 8, 8) \/ ~CanRead(data, 16, 8)
       \/ ~CanRead(data, 24, 8)
    THEN Nil
    ELSE IF MakeSlicePanics(data, 24) THEN Panic
    ELSE IF ~CanRead(data, 32, U64LE(data, 24)) THEN Nil
    ELSE LET path == legacy_readDevicePath(ReadBytes(data, 32, U64LE(data, 24)))
         IN  IF ~path.ok THEN Nil
             ELSE [kind |-> "EFIImageLoad", data |-> data,
                   LocationInMemory |-> ReadBytes(data, 0, 8),
                   LengthInMemory |-> ReadBytes(data, 8, 8),
                   LinkTimeAddress |-> ReadBytes(data, 16, 8),
                   Path |-> path.nodes]

makeEventDataImpl(pcrIndex, eventType, data) ==
    CASE eventType = "EventTypeNoAction" -> makeEventDataNoAction(pcrIndex, data)
      [] eventType = "EventTypeSeparator" -> makeEventDataSeparator(data)
      [] eventType \in {"EventTypeAction", "EventTypeEFIAction"} -> makeEventDataAction(data)
      [] eventType = "EventTypeIPL" -> makeEventDataIPL(pcrIndex, data)
      [] eventType \in {"EventTypeEFIVariableDriverConfig", "EventTypeEFIVariableBoot",
                        "EventTypeEFIVariableAuthority"} -> makeEventDataEFIVariable(data)
      [] eventType \in {"EventTypeEFIBootServicesApplication", "EventTypeEFIBootServicesDriver",
                        "EventTypeEFIRuntimeServicesDriver"} -> makeEventDataImageLoad(data)
      [] OTHER -> Nil

\* variant: EFIGPTEvent is informational
makeOpaqueEventData_gptInformational(eventType, data) ==
    IF eventType \in {"EventTypeEventTag", "EventTypeSCRTMVersion",
                      "EventTypePlatformConfigFlags", "EventTypeTableOfDevices",
                      "EventTypeNonhostInfo", "EventTypeOmitBootDeviceEvents"}
    THEN [kind |-> "Opaque", data |-> data, informational |-> FALSE]
    ELSE [kind |-> "Opaque", data |-> data, informational |-> TRUE]

makeOpaqueEventData(eventType, data) ==
    IF eventType \in {"EventTypeEventTag", "EventTypeSCRTMVersion",
                      "EventTypePlatformConfigFlags", "EventTypeTableOfDevices",
                      "EventTypeNonhostInfo", "EventTypeOmitBootDeviceEvents",
                      "EventTypeEFIGPTEvent"}
    THEN [kind |-> "Opaque", data |-> data, informational |-> FALSE]
    ELSE [kind |-> "Opaque", data |-> data, informational |-> TRUE]

\* variant: no fallback to opaque data
makeEventData_noFallback(pcrIndex, eventType, data) ==
    makeEventDataImpl(pcrIndex, eventType, data)

makeEventData(pcrIndex, eventType, data) ==
    LET event == makeEventDataImpl(pcrIndex, eventType, data)
    IN  IF event = Panic THEN Panic
        ELSE IF event # Nil THEN event
        ELSE makeOpaqueEventData(eventType, data)

\* EventData.RawBytes
RawBytes(e) == e.data

\* EventData.MeasuredBytes: None is Go's nil
None == [some |-> FALSE]

Some(b) == [some |-> TRUE, bytes |-> b]

\* variant: a kernel command line is measured with its prefix and NUL
MeasuredBytes_rawCmdline(e) ==
    CASE e.kind = "SpecId" -> None
      [] e.kind = "Separator" ->
             IF e.Type = "SeparatorEventTypeNormal" THEN Some(e.data) ELSE None
      [] e.kind \in {"AsciiString", "Opaque"} ->
             IF ~e.informational THEN Some(e.data) ELSE None
      [] e.kind = "KernelCmdline" -> Some(e.data)
      [] e.kind = "GrubCmd" -> Some(e.Cmd)
      [] e.kind = "EFIVariable" -> Some(e.data)
      [] e.kind = "EFIImageLoad" -> None

\* variant: a spec-id event is measured
MeasuredBytes_specIdMeasured(e) ==
    CASE e.kind = "SpecId" -> Some(e.data)
      [] e.kind = "Separator" ->
             IF e.Type = "SeparatorEventTypeNormal" THEN Some(e.data) ELSE None
      [] e.kind \in {"AsciiString", "Opaque"} ->
             IF ~e.informational THEN Some(e.data) ELSE None
      [] e.kind = "KernelCmdline" -> Some(e.Cmdline)
      [] e.kind = "GrubCmd" -> Some(e.Cmd)
      [] e.kind = "EFIVariable" -> Some(e.data)
      [] e.kind = "EFIImageLoad" -> None

\* variant: an image-load event is measured
MeasuredBytes_imageLoadMeasured(e) ==
    CASE e.kind = "SpecId" -> None
      [] e.kind = "Separator" ->
             IF e.Type = "SeparatorEventTypeNormal" THEN Some(e.data) ELSE None
      [] e.kind \in {"AsciiString", "Opaque"} ->
             IF ~e.informational THEN Some(e.data) ELSE None
      [] e.kind = "KernelCmdline" -> Some(e.Cmdline)
      [] e.kind = "GrubCmd" -> Some(e.Cmd)
      [] e.kind = "EFIVariable" -> Some(e.data)
      [] e.kind = "EFIImageLoad" -> Some(e.data)

MeasuredBytes(e) ==
    CASE e.kind = "SpecId" -> None
      [] e.kind = "Separator" ->
             IF e.Type = "SeparatorEventTypeNormal" THEN Some(e.data) ELSE None
      [] e.kind \in {"AsciiString", "Opaque"} ->
             IF ~e.informational THEN Some(e.data) ELSE None
      [] e.kind = "KernelCmdline" -> Some(e.Cmdline)
      [] e.kind = "GrubCmd" -> Some(e.Cmd)
      [] e.kind = "EFIVariable" -> Some(e.data)
      [] e.kind = "EFIImageLoad" -> None

(***************************************************************************)
(* The replay variables while a decoder is exercised on its own.           *)
(***************************************************************************)
ReplayIdle ==
    /\ log = <<>>
    /\ idx = 0
    /\ pcr = <<>>
    /\ validated = <<>>
    /\ behaviour = "EFIBootVariableBehaviourUnknown"

RECURSIVE SeqsUpTo(_, _)
\* the sequences over S of length at most n
SeqsUpTo(S, n) ==
    IF n = 0 THEN {<<>>}
    ELSE LET shorter == SeqsUpTo(S, n - 1)
         IN  shorter \cup {Append(q, x) : q \in shorter, x \in S}

RECURSIVE Flatten(_)
Flatten(ss) == IF ss = <<>> THEN <<>> ELSE Head(ss) \o Flatten(Tail(ss))

(***************************************************************************)
(* Spec-id parsing: a NoAction event's payload is assembled from a         *)
(* signature, the declared digestSizes entries and the vendor info, cut    *)
(* short by inp.cut bytes, and handed to makeEventData (eventdata.go) or   *)
(* to parseEFI_2_SpecIdEvent (efi.go).                                     *)
(***************************************************************************)
\* declared entries: SHA-1/20, SHA-256/32, SHA-256 with a wrong size, and an
\* algorithm id outside the registry
SpecIdEntryPool ==
    {[AlgorithmId |-> 4, DigestSize |-> 20], [AlgorithmId |-> 11, DigestSize |-> 32],
     [AlgorithmId |-> 11, DigestSize |-> 20], [AlgorithmId |-> 153, DigestSize |-> 7]}

SpecIdSignature(sig) ==
    CASE sig = "Spec ID Event00" -> SigSpecIdEvent00
      [] sig = "Spec ID Event02" -> SigSpecIdEvent02
      [] sig = "Spec ID Event03" -> SigSpecIdEvent03
      [] OTHER -> SigStartupLocality

SpecIdInputs ==
    {[pcrIndex |-> p, sig |-> g, entries |-> es, vendorInfo |-> v, cut |-> c] :
        p \in {0, 1},
        g \in {"Spec ID Event00", "Spec ID Event02", "Spec ID Event03", "StartupLocality"},
        es \in SeqsUpTo(SpecIdEntryPool, MaxAlgs), v \in {<<>>, <<7>>}, c \in 0..MaxCut}

EncodeEntries(es) ==
    Flatten([k \in 1..Len(es) |-> LE16(es[k].AlgorithmId) \o LE16(es[k].DigestSize)])

\* platformClass 0, specVersionMinor 0, specVersionMajor 2, specErrata 0,
\* uintnSize (or reserved) 2
SpecIdPayloadFull(i) ==
    SpecIdSignature(i.sig) \o LE32(0) \o <<0, 2, 0>> \o <<2>>
    \o (IF i.sig = "Spec ID Event03"
        THEN LE32(Len(i.entries)) \o EncodeEntries(i.entries)
        ELSE <<>>)
    \o <<Len(i.vendorInfo)>> \o i.vendorInfo

SpecIdPayload(i) == Take(SpecIdPayloadFull(i), Len(SpecIdPayloadFull(i)) - i.cut)

InitSpecId ==
    /\ pc = "input"
    /\ inp \in {i \in SpecIdInputs : i.sig = "Spec ID Event03" \/ i.entries = <<>>}
    /\ res = Nil
    /\ ReplayIdle

\* eventdata.go: the event data of a NoAction event
MakeNoActionEventData ==
    /\ pc = "input"
    /\ pc' = "makeEventData"
    /\ res' = makeEventData(inp.pcrIndex, "EventTypeNoAction", SpecIdPayload(inp))
    /\ UNCHANGED <<inp, log, idx, pcr, validated, behaviour>>

\* efi.go: the body of a "Spec ID Event03" payload whose signature and common
\* header were read by the caller
ParseEFI_2_SpecIdEvent ==
    /\ pc = "input"
    /\ inp.pcrIndex = 0
    /\ CanRead(SpecIdPayload(inp), 0, 23)
    /\ ReadBytes(SpecIdPayload(inp), 0, 16) = SigSpecIdEvent03
    /\ pc' = "parseEFI_2_SpecIdEvent"
    /\ res' = parseEFI_2_SpecIdEvent(SpecIdPayload(inp), 23,
                  [kind |-> "SpecId", data |-> SpecIdPayload(inp), Spec |-> "",
                   uintnSize |-> 0, DigestSizes |-> <<>>, VendorInfo |-> <<>>])
    /\ UNCHANGED <<inp, log, idx, pcr, validated, behaviour>>

NextSpecId == MakeNoActionEventData \/ ParseEFI_2_SpecIdEvent

SpecSpecId == InitSpecId /\ [][NextSpecId]_vars

\* C5: header determinism of the eventdata.go spec-id parser.  The event data
\* of a NoAction event is a spec-id with Spec = EFI_2 and the declared entries
\* exactly when the event is in PCR 0, the signature is "Spec ID Event03\0"
\* and the payload is complete; a complete "Spec ID Event00\0" payload gives
\* PCClient and a complete "Spec ID Event02\0" payload EFI_1_2, both with no
\* declared algorithm; any other signature, and any PCR but 0, gives opaque
\* informational data holding the payload.
C5_HeaderDeterminism ==
    pc = "makeEventData" =>
        LET complete == inp.pcrIndex = 0 /\ inp.cut = 0
        IN  /\ (res.kind = "SpecId" /\ res.Spec = "SpecEFI_2")
                   <=> (complete /\ inp.sig = "Spec ID Event03")
            /\ (res.kind = "SpecId" /\ res.Spec = "SpecEFI_2")
                   => res.DigestSizes = inp.entries
            /\ (res.kind = "SpecId" /\ res.Spec = "SpecPCClient")
                   <=> (complete /\ inp.sig = "Spec ID Event00")
            /\ (res.kind = "SpecId" /\ res.Spec = "SpecEFI_1_2")
                   <=> (complete /\ inp.sig = "Spec ID Event02")
            /\ (res.kind = "SpecId" /\ res.Spec # "SpecEFI_2") => res.DigestSizes = <<>>
            /\ (inp.sig = "StartupLocality" \/ inp.pcrIndex # 0)
                   => res = [kind |-> "Opaque", data |-> SpecIdPayload(inp),
                             informational |-> TRUE]

\* a complete "Spec ID Event03\0" payload in PCR 0 declaring two algorithms
\* was decoded as EFI_2
C5_Witness ==
    /\ pc = "makeEventData"
    /\ inp.sig = "Spec ID Event03" /\ inp.pcrIndex = 0 /\ inp.cut = 0
    /\ Len(inp.entries) = 2
    /\ res.kind = "SpecId" /\ res.Spec = "SpecEFI_2"

\* C6: a "Spec ID Event03\0" payload declaring numberOfAlgorithms == 0 is
\* rejected on every parsing path: eventdata.go produces no EFI_2 spec-id with
\* an empty algorithm list, and efi.go returns an invalid-spec-id error.
C6_ZeroAlgorithmsRejected ==
    (inp.sig = "Spec ID Event03" /\ inp.entries = <<>>) =>
        /\ pc = "makeEventData" => ~(res.kind = "SpecId" /\ res.Spec = "SpecEFI_2")
        /\ pc = "parseEFI_2_SpecIdEvent" => res.err # ""

\* C7: every declared entry of a "Spec ID Event03\0" payload is checked
\* against the registry: a known algorithm with a size other than the
\* registry's makes parsing fail on both paths; otherwise (known with the
\* registry's size, or not in the registry) a complete payload parses and
\* DigestSizes is the declared entries in order.
C7_DeclaredSizesChecked ==
    (inp.sig = "Spec ID Event03" /\ inp.pcrIndex = 0 /\ inp.entries # <<>>) =>
        LET mismatch == \E k \in 1..Len(inp.entries) :
                            /\ inp.entries[k].AlgorithmId \in DOMAIN knownAlgorithms
                            /\ knownAlgorithms[inp.entries[k].AlgorithmId]
                                   # inp.entries[k].DigestSize
        IN  /\ pc = "makeEventData" =>
                 /\ mismatch => res.kind # "SpecId"
                 /\ (~mismatch /\ inp.cut = 0) =>
                        (res.kind = "SpecId" /\ res.DigestSizes = inp.entries)
            /\ pc = "parseEFI_2_SpecIdEvent" =>
                 /\ mismatch => res.err # ""
                 /\ (~mismatch /\ inp.cut = 0) =>
                        (res.err = "" /\ res.eventData.DigestSizes = inp.entries)

(***************************************************************************)
(* UEFI_VARIABLE_DATA decoding (efi.go), one action per step of            *)
(* decodeEventDataEFIVariableImpl and per iteration of the loop of         *)
(* extractUTF16Buffer.  The payload is assembled from a name given as      *)
(* code-unit groups, the variable data and the bytes that trail the        *)
(* structure, and is cut short by inp.cut bytes.                           *)
(***************************************************************************)
\* characters of a generated name
MaxName == 3

\* "A", U+00DC, an unpaired low surrogate, a surrogate pair, a high surrogate
NameTokens == {<<65, 0>>, <<220, 0>>, <<0, 220>>, <<61, 216, 0, 222>>, <<0, 216>>}

\* {8be4df61-93ca-11d2-aa0d-00e098032b8c}
EFIGlobalVariableGUID ==
    <<97, 223, 228, 139, 202, 147, 210, 17, 170, 13, 0, 224, 152, 3, 43, 140>>

EFIVariableInputs ==
    {[name |-> nm, unicodeNameLength |-> Len(nm), variableData |-> vd, trailing |-> tr,
      cut |-> c] :
        nm \in SeqsUpTo(NameTokens, MaxName), vd \in {<<>>, <<170, 187>>},
        tr \in {<<>>, <<0>>}, c \in 0..MaxCut}

EFIVariablePayloadFull(i) ==
    EFIGlobalVariableGUID \o LE64(i.unicodeNameLength) \o LE64(Len(i.variableData))
    \o Flatten(i.name) \o i.variableData \o i.trailing

EFIVariablePayload(i) == Take(EFIVariablePayloadFull(i), Len(EFIVariablePayloadFull(i)) - i.cut)

InitEFIVariable ==
    /\ pc = "input"
    /\ inp \in EFIVariableInputs
    /\ res = Nil
    /\ ReplayIdle

\* decodeEFIGUID, unicodeNameLength, variableDataLength
EFIVariableReadHeader ==
    /\ pc = "input"
    /\ IF EFIVariableHeaderOK(EFIVariablePayload(inp))
       THEN /\ pc' = "extractUTF16Buffer"
            /\ res' = [pos |-> 32, i |-> U64LE(EFIVariablePayload(inp), 16),
                       out |-> <<>>, err |-> FALSE]
       ELSE /\ pc' = "done"
            /\ res' = Nil
    /\ UNCHANGED <<inp, log, idx, pcr, validated, behaviour>>

\* one iteration of the loop of extractUTF16Buffer
ExtractUTF16Iteration ==
    /\ pc = "extractUTF16Buffer"
    /\ ~res.err /\ res.i > 0
    /\ res' = utf16Iteration(EFIVariablePayload(inp), res)
    /\ UNCHANGED <<pc, inp, log, idx, pcr, validated, behaviour>>

\* utf16.Decode, variableData, bytesRead
EFIVariableReadData ==
    /\ pc = "extractUTF16Buffer"
    /\ res.err \/ res.i = 0
    /\ pc' = "done"
    /\ res' = EFIVariableAfterName(EFIVariablePayload(inp), res)
    /\ UNCHANGED <<inp, log, idx, pcr, validated, behaviour>>

NextEFIVariable == EFIVariableReadHeader \/ ExtractUTF16Iteration \/ EFIVariableReadData

SpecEFIVariable == InitEFIVariable /\ [][NextEFIVariable]_vars

IsHighSurrogate(c) == c >= 55296 /\ c <= 56319

IsLowSurrogate(c) == c >= 56320 /\ c <= 57343

\* The counting rule of the claims, read off the payload: k characters from
\* offset pos, a high surrogate followed by a low surrogate being one character
\* of 4 bytes, a high surrogate followed by anything else one character of
\* loneHigh bytes, every other unit one character of 2 bytes.  invalid is the
\* index of the first high surrogate not followed by a low one (0: none) and
\* invalidPos the offset of that unit.
RECURSIVE CountChars(_, _, _, _, _)
CountChars(data, k, loneHigh, j, acc) ==
    IF j > k THEN acc
    ELSE IF ~CanRead(data, acc.pos, 2) THEN [acc EXCEPT !.ok = FALSE]
    ELSE LET c == data[acc.pos + 1] + 256 * data[acc.pos + 2]
         IN  IF IsHighSurrogate(c)
             THEN IF ~CanRead(data, acc.pos + 2, 2) THEN [acc EXCEPT !.ok = FALSE]
                  ELSE LET c2 == data[acc.pos + 3] + 256 * data[acc.pos + 4]
                       IN  IF IsLowSurrogate(c2)
                           THEN CountChars(data, k, loneHigh, j + 1,
                                    [acc EXCEPT !.pos = @ + 4, !.out = @ \o <<c, c2>>])
                           ELSE CountChars(data, k, loneHigh, j + 1,
                                    [acc EXCEPT !.pos = @ + loneHigh, !.out = Append(@, c),
                                                !.invalid = IF @ = 0 THEN j ELSE @,
                                                !.invalidPos = IF acc.invalid = 0
                                                               THEN acc.pos ELSE @])
             ELSE CountChars(data, k, loneHigh, j + 1,
                      [acc EXCEPT !.pos = @ + 2, !.out = Append(@, c)])

Counted(data, k, loneHigh) ==
    CountChars(data, k, loneHigh, 1,
               [ok |-> TRUE, pos |-> 32, out |-> <<>>, invalid |-> 0, invalidPos |-> 0])

\* C8 as stated: when extractUTF16Buffer has read its n characters, the
\* cursor is past exactly the code units of n characters, a high surrogate
\* followed by a low surrogate counting as one character of 4 bytes and every
\* other unit as one character of 2 bytes.
C8_EveryOtherUnitTwoBytes ==
    (pc = "extractUTF16Buffer" /\ ~res.err /\ res.i = 0) =>
        LET r == Counted(EFIVariablePayload(inp), inp.unicodeNameLength, 2)
        IN  r.ok /\ res.pos = r.pos /\ res.out = r.out

\* C8 amended: as above, except that a high surrogate followed by a unit that
\* is not a low surrogate is one character of 3 bytes; a name of three
\* characters whose middle one is a surrogate pair takes exactly 8 bytes and
\* variableData is the bytes right after it.
C8_CharacterCounting ==
    /\ (pc = "extractUTF16Buffer" /\ ~res.err /\ res.i = 0) =>
           LET r == Counted(EFIVariablePayload(inp), inp.unicodeNameLength, 3)
           IN  r.ok /\ res.pos = r.pos /\ res.out = r.out
    /\ (inp.name = <<<<65, 0>>, <<61, 216, 0, 222>>, <<65, 0>>>> /\ inp.cut = 0) =>
           /\ (pc = "extractUTF16Buffer" /\ res.i = 0) => (~res.err /\ res.pos = 32 + 8)
           /\ pc = "done" =>
                  /\ res.kind = "EFIVariable"
                  /\ res.VariableData = inp.variableData
                  /\ res.n = 32 + 8 + Len(inp.variableData)

\* a three-character name with a surrogate pair in the middle was decoded
C8_Witness ==
    /\ pc = "done"
    /\ inp.name = <<<<65, 0>>, <<61, 216, 0, 222>>, <<65, 0>>>>
    /\ inp.variableData = <<170, 187>> /\ inp.cut = 0
    /\ res.kind = "EFIVariable"
    /\ Len(res.UnicodeName) = 3

\* The pushback of one byte, for the first high surrogate c of a name that is
\* not followed by a low surrogate (character number f.invalid, at offset
\* f.invalidPos): after that iteration only c has been emitted and the cursor
\* is 3 bytes after the start of c; the next iteration emits the unit that
\* starts at the second byte of c2.
PushbackOneByte(data, k) ==
    LET f == Counted(data, k, 3)
        before == Counted(data, f.invalid - 1, 3)
        c == data[f.invalidPos + 1] + 256 * data[f.invalidPos + 2]
    IN  /\ (f.ok /\ f.invalid = k /\ k > 0) =>
               (res.pos = f.invalidPos + 3 /\ res.out = Append(before.out, c))
        /\ (f.ok /\ f.invalid = k - 1 /\ k > 1) =>
               res.out[Len(before.out) + 2]
                   = data[f.invalidPos + 4] + 256 * data[f.invalidPos + 5]

RecognisedEventTypes ==
    {"EventTypeNoAction", "EventTypeSeparator", "EventTypeAction", "EventTypeEFIAction",
     "EventTypeIPL", "EventTypeEFIVariableDriverConfig", "EventTypeEFIVariableBoot",
     "EventTypeEFIVariableAuthority", "EventTypeEFIBootServicesApplication",
     "EventTypeEFIBootServicesDriver", "EventTypeEFIRuntimeServicesDriver"}

OtherEventTypes ==
    {"EventTypeEventTag", "EventTypeSCRTMVersion", "EventTypePlatformConfigFlags",
     "EventTypeTableOfDevices", "EventTypeNonhostInfo", "EventTypeOmitBootDeviceEvents",
     "EventTypeEFIGPTEvent", "EventTypePostCode", "EventTypeCompactHash"}

\* UEFI_IMAGE_LOAD_EVENT: three u64 fields, devicePathLength, devicePath
ImageLoadPayload(devicePathLength, devicePath) ==
    LE64(4096) \o LE64(512) \o LE64(0) \o devicePathLength \o devicePath

\* Pci(0x0,0x1)
PciNode == <<1, 1, 6, 0, 1, 0>>

EndOfHardwareNode == <<127, 255, 4, 0>>

SeparatorPayloads ==
    {[family |-> "separator", data |-> d] :
        d \in {<<0, 0, 0, 0>>, <<255, 255, 255, 255>>, <<1, 0, 0, 0>>, <<0, 0, 0, 255>>,
               <<0, 0, 0>>, <<0, 0, 0, 0, 0>>, <<>>}}

StringPayloads ==
    {[family |-> "string", data |-> d] :
        d \in {<<84, 69, 83, 84, 0>>, <<84, 69, 83, 84>>,
               kernelCmdlinePrefix \o <<120, 0>>, kernelCmdlinePrefix \o <<120>>,
               kernelCmdlinePrefix, grubCmdPrefix \o <<121, 0>>, grubCmdPrefix \o <<0, 0>>,
               Take(kernelCmdlinePrefix, 15), <<32>> \o grubCmdPrefix}}

SpecIdPayloads ==
    {[family |-> "specid", data |-> SpecIdPayload(i)] :
        i \in {j \in SpecIdInputs :
                  /\ j.pcrIndex = 0 /\ j.vendorInfo = <<>> /\ j.cut \in {0, 1}
                  /\ Len(j.entries) = (IF j.sig = "Spec ID Event03" THEN 1 ELSE 0)}}

VariablePayloads ==
    {[family |-> IF i.cut <= Len(i.trailing) THEN "variable" ELSE "variable truncated",
      data |-> EFIVariablePayload(i)] :
        i \in {j \in EFIVariableInputs :
                  /\ j.name \in {<<>>, <<<<65, 0>>>>, <<<<0, 216>>, <<65, 0>>>>}
                  /\ j.cut \in {0, 1}}}
    \cup {[family |-> "variable makeslice",
           data |-> EFIGlobalVariableGUID \o LE64(0) \o <<0, 0, 0, 0, 0, 0, 0, 128>>]}

ImageLoadPayloads ==
    {[family |-> "image load", data |-> ImageLoadPayload(LE64(Len(p)), p)] :
        p \in {PciNode \o EndOfHardwareNode, EndOfHardwareNode,
               <<4, 4, 4, 0>> \o EndOfHardwareNode}}
    \cup {[family |-> "image load malformed", data |-> d] :
            d \in {ImageLoadPayload(LE64(6), PciNode),
                   ImageLoadPayload(LE64(0), <<>>),
                   ImageLoadPayload(LE64(8), <<1, 1, 3, 0>> \o EndOfHardwareNode),
                   ImageLoadPayload(LE64(10), PciNode \o Take(EndOfHardwareNode, 3)),
                   ImageLoadPayload(LE64(12), PciNode \o EndOfHardwareNode),
                   Take(ImageLoadPayload(LE64(4), EndOfHardwareNode), 30)}}
    \cup {[family |-> "image load makeslice",
           data |-> ImageLoadPayload(<<0, 0, 0, 0, 0, 0, 1, 0>>, EndOfHardwareNode)]}

EventPayloads ==
    SeparatorPayloads \cup StringPayloads \cup SpecIdPayloads \cup VariablePayloads
    \cup ImageLoadPayloads

EventDataInputs ==
    {[pcrIndex |-> p, eventType |-> t, family |-> pl.family, data |-> pl.data] :
        p \in {0, 7, 8, 9}, t \in RecognisedEventTypes \cup OtherEventTypes,
        pl \in EventPayloads}

InitEventData ==
    /\ pc = "input"
    /\ inp \in EventDataInputs
    /\ res = Nil
    /\ ReplayIdle

MakeEventData ==
    /\ pc = "input"
    /\ pc' = "makeEventData"
    /\ res' = makeEventData(inp.pcrIndex, inp.eventType, inp.data)
    /\ UNCHANGED <<inp, log, idx, pcr, validated, behaviour>>

NextEventData == MakeEventData

SpecEventData == InitEventData /\ [][NextEventData]_vars

RECURSIVE HashFrom(_, _, _)
HashFrom(b, k, h) ==
    IF k > Len(b) THEN h ELSE HashFrom(b, k + 1, (h * 257 + b[k] + 1) % 8000009)

\* hash(algo, bytes) -> Digest
Hash(alg, b) == <<HashFrom(b, 1, alg)>>

\* extend(pcr, algo, incoming): pcr' = H(pcr || incoming)
Extend(alg, acc, incoming) == Hash(alg, acc \o incoming)

\* the all-zero initial value of a PCR
ZeroDigest == <<0>>

\* efi.go: decodeStartupLocalityEvent reads the locality that follows the
\* signature
decodeStartupLocalityEvent(data, pos) ==
    IF ~CanRead(data, pos, 1) THEN Nil
    ELSE [kind |-> "StartupLocality", data |-> data, Locality |-> U8(data, pos)]

\* the algorithms of a log: those its spec-id event declares, SHA-1 otherwise
LogAlgorithms(events) ==
    LET first == IF events = <<>> THEN Nil
                 ELSE makeEventData(events[1].PCRIndex, events[1].EventType, events[1].Data)
    IN  IF first.kind = "SpecId" /\ first.Spec = "SpecEFI_2"
        THEN [k \in 1..Len(first.DigestSizes) |-> first.DigestSizes[k].AlgorithmId]
        ELSE <<4>>

\* the StartupLocality events of a log
StartupLocalities(events) ==
    {decodeStartupLocalityEvent(events[k].Data, 16).Locality :
        k \in {j \in 1..Len(events) :
                  /\ events[j].EventType = "EventTypeNoAction"
                  /\ HasPrefix(events[j].Data, SigStartupLocality)
                  /\ CanRead(events[j].Data, 16, 1)}}

\* pcr[i][alg] before the first event: zero, but for PCR 0 the startup
\* locality when a StartupLocality event records locality 3 or 4
InitialPCRValue(events, i) ==
    IF i = 0 /\ 3 \in StartupLocalities(events) THEN <<3>>
    ELSE IF i = 0 /\ 4 \in StartupLocalities(events) THEN <<4>>
    ELSE ZeroDigest

doesEventTypeExtendPCR(eventType) == eventType # "EventTypeNoAction"

\* the bytes of the payload that the event's decoder consumed: efi.go's
\* variable decoder reports them (bytesRead); every other decoder takes the
\* whole payload
ConsumedBytes(e, ed) ==
    IF ed.kind = "EFIVariable" THEN decodeEventDataEFIVariableImpl(e.Data).n ELSE Len(e.Data)

AllDigestsMatch(e, algs, b) ==
    \A k \in 1..Len(algs) : e.Digests[algs[k]] = Hash(algs[k], b)

RECURSIVE FirstTrailingMatch(_, _, _, _)
\* the least k in from..Len(e.Data) - n for which the first n + k bytes of the
\* payload reproduce every digest; 0 when there is none
FirstTrailingMatch(e, algs, n, from) ==
    IF n + from > Len(e.Data) THEN 0
    ELSE IF AllDigestsMatch(e, algs, Take(e.Data, n + from)) THEN from
    ELSE FirstTrailingMatch(e, algs, n, from + 1)

\* a validated event without measured bytes
Unmeasured(e) ==
    [Event |-> e, MeasuredBytes |-> <<>>, MeasuredTrailingBytesCount |-> 0,
     IncorrectDigestValues |-> <<>>]

\* the algorithms whose recorded digest is not the hash of base, each with
\* that hash
IncorrectDigests(e, algs, base) ==
    SelectSeq([j \in 1..Len(algs) |-> [Algorithm |-> algs[j], Expected |-> Hash(algs[j], base)]],
              LAMBDA v : e.Digests[v.Algorithm] # v.Expected)

\* the outcome for an event with measured bytes: varData and full tell whether
\* variableData alone and the decoded structure reproduce every digest, k is
\* the trailing count that does (0: none)
ValidateMatch(e, beh, isBoot, variableData, base, extended, varData, full, k, incorrect) ==
    IF varData /\ (beh = "EFIBootVariableBehaviourVarDataOnly" \/ ~full)
    THEN [ve |-> [Unmeasured(e) EXCEPT !.MeasuredBytes = variableData],
          behaviour |-> IF beh = "EFIBootVariableBehaviourUnknown"
                        THEN "EFIBootVariableBehaviourVarDataOnly" ELSE beh]
    ELSE IF full
    THEN [ve |-> [Unmeasured(e) EXCEPT !.MeasuredBytes = base],
          behaviour |-> IF isBoot /\ beh = "EFIBootVariableBehaviourUnknown"
                        THEN "EFIBootVariableBehaviourFull" ELSE beh]
    ELSE IF k > 0
    THEN [ve |-> [Unmeasured(e) EXCEPT !.MeasuredBytes = extended,
                                       !.MeasuredTrailingBytesCount = k],
          behaviour |-> beh]
    ELSE [ve |-> [Unmeasured(e) EXCEPT !.MeasuredBytes = base,
                                       !.IncorrectDigestValues = incorrect],
          behaviour |-> beh]

\* variant: the measured bytes of a trailing match are left at the decoded
\* part
ValidateDigests_baseMeasured(e, algs, beh, isBoot, variableData, n, base, k) ==
    ValidateMatch(e, beh, isBoot, variableData, base, base,
                  isBoot /\ AllDigestsMatch(e, algs, variableData),
                  AllDigestsMatch(e, algs, base), k, IncorrectDigests(e, algs, base))

\* the digest comparisons for base, the decoded part of the payload (n bytes
\* of it for a variable)
ValidateDigests(e, algs, beh, isBoot, variableData, n, base, k) ==
    ValidateMatch(e, beh, isBoot, variableData, base, Take(e.Data, n + k),
                  isBoot /\ AllDigestsMatch(e, algs, variableData),
                  AllDigestsMatch(e, algs, base), k, IncorrectDigests(e, algs, base))

ValidateMeasured(e, algs, beh, ed, m, n) ==
    IF ~m.some THEN [ve |-> Unmeasured(e), behaviour |-> beh]
    ELSE IF ed.kind = "EFIVariable"
    THEN ValidateDigests(e, algs, beh, e.EventType = "EventTypeEFIVariableBoot",
                         ed.VariableData, n, Take(e.Data, n), FirstTrailingMatch(e, algs, n, 1))
    ELSE ValidateDigests(e, algs, beh, FALSE, <<>>, n, m.bytes, 0)

ValidateDecoded(e, algs, beh, ed) ==
    ValidateMeasured(e, algs, beh, ed, MeasuredBytes(ed), ConsumedBytes(e, ed))

\* Step 3 of the replay for one event under the latched behaviour beh: the
\* validated event and the behaviour afterwards.
ValidateEvent(e, algs, beh) ==
    ValidateDecoded(e, algs, beh, makeEventData(e.PCRIndex, e.EventType, e.Data))

(***************************************************************************)
(* Replay of a whole log.  The log starts with a "Spec ID Event03" event   *)
(* declaring SHA-1 and SHA-256 and continues with at most MaxLogLen events *)
(* of ReplayEvents.                                                        *)
(***************************************************************************)
\* events of a generated log after its spec-id event
MaxLogLen == 3

ReplayAlgorithms == {4, 11}

DigestsOf(b) == [alg \in ReplayAlgorithms |-> Hash(alg, b)]

ReplayEvent(pcrIndex, eventType, data, digests) ==
    [PCRIndex |-> pcrIndex, EventType |-> eventType, Digests |-> digests, Data |-> data]

SpecIdEvent ==
    ReplayEvent(0, "EventTypeNoAction",
                SpecIdPayloadFull([sig |-> "Spec ID Event03",
                                   entries |-> <<[AlgorithmId |-> 4, DigestSize |-> 20],
                                                 [AlgorithmId |-> 11, DigestSize |-> 32]>>,
                                   vendorInfo |-> <<>>]),
                [alg \in ReplayAlgorithms |-> ZeroDigest])

\* "TEST"
TestString == <<84, 69, 83, 84>>

\* UEFI_VARIABLE_DATA for the variable "A" with data aa bb, followed by tr
VariableEventPayload(tr) ==
    EFIVariablePayloadFull([name |-> <<<<65, 0>>>>, unicodeNameLength |-> 1,
                            variableData |-> <<170, 187>>, trailing |-> tr])

\* an Action event whose payload ends in a NUL, digests over the payload
ActionNulEvent ==
    ReplayEvent(7, "EventTypeEFIAction", TestString \o <<0>>, DigestsOf(TestString \o <<0>>))

\* an Action event whose payload stops before the NUL the digests cover
ActionNulCutEvent ==
    ReplayEvent(7, "EventTypeEFIAction", TestString, DigestsOf(TestString \o <<0>>))

\* a boot variable measured as the whole UEFI_VARIABLE_DATA structure
BootFullEvent ==
    ReplayEvent(1, "EventTypeEFIVariableBoot", VariableEventPayload(<<>>),
                DigestsOf(VariableEventPayload(<<>>)))

\* a boot variable measured as its variableData alone
BootVarDataEvent ==
    ReplayEvent(1, "EventTypeEFIVariableBoot", VariableEventPayload(<<>>),
                DigestsOf(<<170, 187>>))

\* a variable followed by two bytes of padding, the first of them measured
TrailingEvent ==
    ReplayEvent(7, "EventTypeEFIVariableDriverConfig", VariableEventPayload(<<0, 0>>),
                DigestsOf(VariableEventPayload(<<0>>)))

\* a variable followed by two bytes of padding, digests that no prefix of the
\* payload reproduces
TrailingWrongEvent ==
    ReplayEvent(7, "EventTypeEFIVariableDriverConfig", VariableEventPayload(<<0, 0>>),
                DigestsOf(<<170, 187>>))

\* events whose digests are the hashes of their measured bytes
HonestEvents ==
    {ActionNulEvent,
     ReplayEvent(7, "EventTypeSeparator", <<0, 0, 0, 0>>, DigestsOf(<<0, 0, 0, 0>>)),
     ReplayEvent(8, "EventTypeIPL", kernelCmdlinePrefix \o <<120, 0>>, DigestsOf(<<120>>)),
     BootFullEvent}

\* events without measured bytes: an Error separator, an image load, a
\* StartupLocality event with locality 3
NoMeasureEvents ==
    {ReplayEvent(7, "EventTypeSeparator", <<1, 0, 0, 0>>, DigestsOf(<<1, 0, 0, 0>>)),
     ReplayEvent(4, "EventTypeEFIBootServicesApplication",
                 ImageLoadPayload(LE64(4), EndOfHardwareNode), DigestsOf(<<77, 90>>)),
     ReplayEvent(0, "EventTypeNoAction", SigStartupLocality \o <<3>>,
                 [alg \in ReplayAlgorithms |-> ZeroDigest])}

\* an Action event whose SHA-1 digest alone is wrong
WrongSHA1Event ==
    ReplayEvent(7, "EventTypeEFIAction", TestString \o <<0>>,
                [DigestsOf(TestString \o <<0>>) EXCEPT ![4] = <<1>>])

ReplayEvents ==
    HonestEvents \cup NoMeasureEvents
    \cup {BootVarDataEvent, TrailingEvent, TrailingWrongEvent, ActionNulCutEvent, WrongSHA1Event}

PCRIndices == {0} \cup {e.PCRIndex : e \in ReplayEvents}

InitReplay ==
    /\ pc = "replay"
    /\ inp = Nil
    /\ res = Nil
    /\ log \in {<<SpecIdEvent>> \o rest : rest \in SeqsUpTo(ReplayEvents, MaxLogLen)}
    /\ idx = 0
    /\ pcr = [i \in PCRIndices |->
                 [alg \in {LogAlgorithms(log)[k] : k \in 1..Len(LogAlgorithms(log))} |->
                     InitialPCRValue(log, i)]]
    /\ validated = <<>>
    /\ behaviour = "EFIBootVariableBehaviourUnknown"

\* the validated event is recorded and the behaviour latched
ReplayRecord(v) ==
    /\ validated' = Append(validated, v.ve)
    /\ behaviour' = v.behaviour
    /\ idx' = idx + 1

\* the validation of log[idx + 1], common to both kinds of event
ReplayValidate == ReplayRecord(ValidateEvent(log[idx + 1], LogAlgorithms(log), behaviour))

\* an event that extends no PCR
ReplayNoAction ==
    /\ pc = "replay"
    /\ idx < Len(log)
    /\ ~doesEventTypeExtendPCR(log[idx + 1].EventType)
    /\ ReplayValidate
    /\ UNCHANGED <<pc, inp, res, log, pcr>>

\* an event whose digests are extended into its PCR
ReplayExtend ==
    /\ pc = "replay"
    /\ idx < Len(log)
    /\ doesEventTypeExtendPCR(log[idx + 1].EventType)
    /\ LET e == log[idx + 1]
       IN  pcr' = [pcr EXCEPT ![e.PCRIndex] =
                      [alg \in DOMAIN pcr[e.PCRIndex] |->
                          Extend(alg, pcr[e.PCRIndex][alg], e.Digests[alg])]]
    /\ ReplayValidate
    /\ UNCHANGED <<pc, inp, res, log>>

\* the end of the log: the result is assembled
ReplayFinish ==
    /\ pc = "replay"
    /\ idx = Len(log)
    /\ pc' = "done"
    /\ res' = [Algorithms |-> LogAlgorithms(log), ValidatedEvents |-> validated,
               ExpectedPCRValues |-> pcr, EfiBootVariableBehaviour |-> behaviour]
    /\ UNCHANGED <<inp, log, idx, pcr, validated, behaviour>>

NextReplay == ReplayNoAction \/ ReplayExtend \/ ReplayFinish

SpecReplay == InitReplay /\ [][NextReplay]_vars

(***************************************************************************)
(* Properties of the replay.                                               *)
(***************************************************************************)
RECURSIVE FoldPCR(_, _, _, _, _)
\* H(...H(H(acc || d1) || d2)... || dn) over the digests for alg of the
\* events k.. of events that target PCR i and are not no-action events
FoldPCR(events, i, alg, k, acc) ==
    IF k > Len(events) THEN acc
    ELSE FoldPCR(events, i, alg, k + 1,
                 IF events[k].PCRIndex = i /\ events[k].EventType # "EventTypeNoAction"
                 THEN Hash(alg, acc \o events[k].Digests[alg])
                 ELSE acc)

HasStartupLocality(events) ==
    \E k \in 1..Len(events) : HasPrefix(events[k].Data, SigStartupLocality)

\* every event after the spec-id event carries the hash of its measured
\* bytes, or has no measured bytes
HonestLog(events) ==
    \A k \in 2..Len(events) : events[k] \in HonestEvents \cup NoMeasureEvents

\* C1: after any number of events every PCR value is the fold
\* H(...H(H(0 || d1) || d2)... || dn) over the recorded digests of the events
\* processed so far that target the PCR and are not no-action events,
\* whatever their event data (an Error separator is folded in like any other
\* event), starting from zero in a log without a StartupLocality event; the
\* result carries these values; and in a log whose events all carry the hash
\* of their measured bytes no validated event has an incorrect digest.
C1_ReplaySoundness ==
    /\ pc \in {"replay", "done"} =>
          /\ ~HasStartupLocality(log) =>
                \A i \in PCRIndices : \A alg \in ReplayAlgorithms :
                    pcr[i][alg] = FoldPCR(SubSeq(log, 1, idx), i, alg, 1, ZeroDigest)
          /\ HonestLog(log) =>
                \A k \in 1..Len(validated) : validated[k].IncorrectDigestValues = <<>>
    /\ pc = "done" =>
          /\ res.ExpectedPCRValues = pcr
          /\ res.ValidatedEvents = validated
          /\ Len(validated) = Len(log)

\* a finished replay of an honest log with an Error separator, a kernel
\* command line and no StartupLocality event
C1_Witness ==
    /\ pc = "done"
    /\ Len(log) = 3
    /\ HonestLog(log)
    /\ ~HasStartupLocality(log)
    /\ log[2].EventType = "EventTypeIPL"
    /\ log[3].EventType = "EventTypeSeparator" /\ log[3].Data = <<1, 0, 0, 0>>
    /\ res.ExpectedPCRValues[7][11] # ZeroDigest
    /\ res.ExpectedPCRValues[8][4] # ZeroDigest

\* C2: the step that processes a no-action event leaves every PCR as it was
\* and records the event at its position in the validated events, without
\* measured bytes and without an incorrect digest.
C2_NoActionNotExtended ==
    [][(pc = "replay" /\ idx < Len(log) /\ log[idx + 1].EventType = "EventTypeNoAction") =>
          /\ pcr' = pcr
          /\ Len(validated') = idx + 1
          /\ validated'[idx + 1].Event = log[idx + 1]
          /\ validated'[idx + 1].MeasuredBytes = <<>>
          /\ validated'[idx + 1].MeasuredTrailingBytesCount = 0
          /\ validated'[idx + 1].IncorrectDigestValues = <<>>
          /\ SubSeq(validated', 1, idx) = validated]_vars

\* the spec-id event and a StartupLocality event have been processed after an
\* event that extended PCR 7
C2_Witness ==
    /\ pc = "done"
    /\ Len(log) = 3
    /\ log[2].EventType = "EventTypeEFIAction"
    /\ log[3].EventType = "EventTypeNoAction"
    /\ validated[1].Event = SpecIdEvent
    /\ validated[3].Event = log[3]
    /\ pcr[7][4] # ZeroDigest
    /\ pcr[0][4] = <<3>>

RECURSIVE ExpectedBehaviour(_, _)
\* the behaviour after events k.. : decided by the first boot-variable event
\* that matches in either way
ExpectedBehaviour(events, k) ==
    IF k > Len(events) THEN "EFIBootVariableBehaviourUnknown"
    ELSE IF events[k] = BootVarDataEvent THEN "EFIBootVariableBehaviourVarDataOnly"
    ELSE IF events[k] = BootFullEvent THEN "EFIBootVariableBehaviourFull"
    ELSE ExpectedBehaviour(events, k + 1)

\* C3: the behaviour is Unknown until the first boot-variable event that
\* matches; it becomes VarDataOnly when that event's digests are the hashes of
\* variableData alone and Full when they are the hashes of the whole
\* structure, and it never changes afterwards; in a log with two boot-variable
\* events that match variableData only, and none that matches in full, the
\* final value is VarDataOnly and neither event has an incorrect digest.
C3_BootVariableBehaviourLatch ==
    /\ pc \in {"replay", "done"} =>
          behaviour = ExpectedBehaviour(SubSeq(log, 1, idx), 1)
    /\ (/\ pc = "done"
        /\ Cardinality({k \in 1..Len(log) : log[k] = BootVarDataEvent}) >= 2
        /\ \A k \in 1..Len(log) : log[k] # BootFullEvent) =>
          /\ res.EfiBootVariableBehaviour = "EFIBootVariableBehaviourVarDataOnly"
          /\ \A k \in 1..Len(log) :
                log[k] = BootVarDataEvent => validated[k].IncorrectDigestValues = <<>>

\* two boot-variable events that match variableData only have been replayed
C3_Witness ==
    /\ pc = "done"
    /\ Len(log) = 3
    /\ log[2] = BootVarDataEvent
    /\ log[3] = BootVarDataEvent
    /\ res.EfiBootVariableBehaviour = "EFIBootVariableBehaviourVarDataOnly"
    /\ validated[2].MeasuredBytes = <<170, 187>>
    /\ validated[3].MeasuredBytes = <<170, 187>>

readDevicePathNode(data, pos) ==
    IF ~CanRead(data, pos, 1) \/ ~CanRead(data, pos + 1, 1) \/ ~CanRead(data, pos + 2, 2)
    THEN [ok |-> FALSE]
    ELSE IF U16LE(data, pos + 2) < 4 THEN [ok |-> FALSE]
    ELSE IF ~CanRead(data, pos + 4, U16LE(data, pos + 2) - 4) THEN [ok |-> FALSE]
    ELSE [ok |-> TRUE, pos |-> pos + U16LE(data, pos + 2),
          node |-> [t |-> U8(data, pos), subType |-> U8(data, pos + 1),
                    data |-> ReadBytes(data, pos + 4, U16LE(data, pos + 2) - 4)]]

\* the loop of efi.go readDevicePath after the node r was read: an empty path
\* when no node could be read, the nodes before the End-of-Hardware node
\* otherwise
RECURSIVE readDevicePathFrom(_, _, _)
readDevicePathFrom(data, r, nodes) ==
    IF ~r.ok THEN <<>>
    ELSE IF r.node.t = efiDevicePathNodeEoH THEN nodes
    ELSE readDevicePathFrom(data, readDevicePathNode(data, r.pos), Append(nodes, r.node))

readDevicePath(data) == readDevicePathFrom(data, readDevicePathNode(data, 0), <<>>)

\* efi.go decodeEventDataEFIImageLoadImpl; n is bytesRead
decodeEventDataEFIImageLoadImpl(data) ==
    IF ~CanRead(data, 0, 8) \/ ~CanRead(data, 8, 8) \/ ~CanRead(data, 16, 8)
       \/ ~CanRead(data, 24, 8)
    THEN Nil
    ELSE IF MakeSlicePanics(data, 24) THEN Panic
    ELSE IF ~CanRead(data, 32, U64LE(data, 24)) THEN Nil
    ELSE [kind |-> "EFIImageLoad", data |-> data,
          LocationInMemory |-> ReadBytes(data, 0, 8),
          LengthInMemory |-> ReadBytes(data, 8, 8),
          LinkTimeAddress |-> ReadBytes(data, 16, 8),
          Path |-> readDevicePath(ReadBytes(data, 32, U64LE(data, 24))),
          n |-> 32 + U64LE(data, 24)]

(***************************************************************************)
(* Device paths: a device-path buffer is assembled from nodes, followed by *)
(* inp.fill zero bytes and cut short by inp.cut bytes; it is read as one   *)
(* node by either readDevicePathNode, and as the device path of an         *)
(* image-load event by makeEventData (eventdata.go) and by                 *)
(* decodeEventDataEFIImageLoadImpl (efi.go).                               *)
(***************************************************************************)
\* nodes of a generated device path
MaxNodes == 2

\* zero bytes after the nodes of a generated device path: enough for the
\* data of a node whose length field wrapped around
MaxFill == 65535

\* a file-path node without data
EmptyFilePathNode == <<4, 4, 4, 0>>

\* node headers whose length field is 0..3
ShortNodes == {<<1, 1, k, 0>> : k \in 0..3}

WellFormedNodes == {PciNode, EmptyFilePathNode}

DevicePathInputs ==
    {[nodes |-> ns, fill |-> f, cut |-> c] :
        ns \in SeqsUpTo(WellFormedNodes \cup ShortNodes \cup {EndOfHardwareNode}, MaxNodes),
        f \in {0, 2}, c \in 0..MaxCut}
    \cup {[nodes |-> <<n>>, fill |-> MaxFill, cut |-> 0] : n \in ShortNodes}

DevicePathBufFull(i) == Flatten(i.nodes) \o [k \in 1..i.fill |-> 0]

DevicePathBuf(i) == Take(DevicePathBufFull(i), Len(DevicePathBufFull(i)) - i.cut)

InitDevicePath ==
    /\ pc = "input"
    /\ inp \in {i \in DevicePathInputs : i.cut <= Len(DevicePathBufFull(i))}
    /\ res = Nil
    /\ ReplayIdle

\* eventdata.go: the first node of the buffer
LegacyReadDevicePathNode ==
    /\ pc = "input"
    /\ pc' = "eventdata.go readDevicePathNode"
    /\ res' = legacy_readDevicePathNode(DevicePathBuf(inp), 0)
    /\ UNCHANGED <<inp, log, idx, pcr, validated, behaviour>>

\* efi.go: the first node of the buffer
ReadDevicePathNode ==
    /\ pc = "input"
    /\ pc' = "efi.go readDevicePathNode"
    /\ res' = readDevicePathNode(DevicePathBuf(inp), 0)
    /\ UNCHANGED <<inp, log, idx, pcr, validated, behaviour>>

ImageLoadEventPayload(i) == ImageLoadPayload(LE64(Len(DevicePathBuf(i))), DevicePathBuf(i))

\* eventdata.go: the event data of an image-load event with this device path
MakeImageLoadEventData ==
    /\ pc = "input"
    /\ pc' = "makeEventData"
    /\ res' = makeEventData(4, "EventTypeEFIBootServicesApplication", ImageLoadEventPayload(inp))
    /\ UNCHANGED <<inp, log, idx, pcr, validated, behaviour>>

\* efi.go: the event data of an image-load event with this device path
DecodeEventDataEFIImageLoad ==
    /\ pc = "input"
    /\ pc' = "decodeEventDataEFIImageLoad"
    /\ res' = decodeEventDataEFIImageLoadImpl(ImageLoadEventPayload(inp))
    /\ UNCHANGED <<inp, log, idx, pcr, validated, behaviour>>

NextDevicePath ==
    \/ LegacyReadDevicePathNode
    \/ ReadDevicePathNode
    \/ MakeImageLoadEventData
    \/ DecodeEventDataEFIImageLoad

SpecDevicePath == InitDevicePath /\ [][NextDevicePath]_vars

\* no End-of-Hardware node can be read from the buffer: its nodes are
\* well-formed nodes of other types and fewer than 4 bytes follow them
RunsOutBeforeEoH(i) ==
    /\ \A k \in 1..Len(i.nodes) : i.nodes[k] \in WellFormedNodes
    /\ i.fill < 4

\* C11: an image-load event whose device path runs out of bytes before an
\* End-of-Hardware node is read is kept as opaque data holding the payload by
\* eventdata.go, and is not returned as a decoded image-load event by efi.go.
C11_DevicePathTermination ==
    RunsOutBeforeEoH(inp) =>
        /\ pc = "makeEventData" =>
              (res.kind = "Opaque" /\ RawBytes(res) = ImageLoadEventPayload(inp))
        /\ pc = "decodeEventDataEFIImageLoad" => res.kind # "EFIImageLoad"

\* C12: a node whose length field is below 4 is refused by both
\* readDevicePathNode whatever follows it.
C12_ShortNodeRejected ==
    (/\ pc \in {"eventdata.go readDevicePathNode", "efi.go readDevicePathNode"}
     /\ inp.nodes # <<>> /\ inp.nodes[1] \in ShortNodes /\ inp.cut = 0) => ~res.ok

(***************************************************************************)
(* Properties of makeEventData (eventdata.go), checked on SpecEventData.   *)
(***************************************************************************)
\* C13: a Separator event with a 4-byte payload decodes to Separator data
\* holding the payload; its kind is Normal and its measured bytes are the
\* payload when the 32-bit value is 0 or 0xFFFFFFFF (all bytes 0, or all bytes
\* 255), and its kind is Error and it has no measured bytes for every other
\* value.
C13_SeparatorKinds ==
    (pc = "makeEventData" /\ inp.eventType = "EventTypeSeparator" /\ Len(inp.data) = 4) =>
        LET normal == (\A k \in 1..4 : inp.data[k] = 0) \/ (\A k \in 1..4 : inp.data[k] = 255)
        IN  /\ res.kind = "Separator"
            /\ RawBytes(res) = inp.data
            /\ normal => (res.Type = "SeparatorEventTypeNormal"
                          /\ MeasuredBytes(res) = Some(inp.data))
            /\ ~normal => (res.Type = "SeparatorEventTypeError" /\ MeasuredBytes(res) = None)

\* the separator 0xFFFFFFFF was decoded as Normal
C13_Witness ==
    /\ pc = "makeEventData"
    /\ inp.eventType = "EventTypeSeparator" /\ inp.data = <<255, 255, 255, 255>>
    /\ res.kind = "Separator" /\ res.Type = "SeparatorEventTypeNormal"
    /\ MeasuredBytes(res) = Some(<<255, 255, 255, 255>>)

\* the bytes of d after its first n, without one trailing NUL
AfterPrefixWithoutNUL(d, n) ==
    IF Len(d) > n /\ d[Len(d)] = 0 THEN SubSeq(d, n + 1, Len(d) - 1) ELSE SubSeq(d, n + 1, Len(d))

\* C14: an IPL event in PCR 8 whose payload begins with "kernel_cmdline: "
\* (or else with "grub_cmd: ") decodes to KernelCmdline (GrubCmd) data whose
\* raw bytes are the payload and whose measured bytes are the payload without
\* the prefix and without the trailing NUL; every other IPL payload in PCR 8
\* is opaque.
C14_IPLPrefixes ==
    (pc = "makeEventData" /\ inp.eventType = "EventTypeIPL" /\ inp.pcrIndex = 8) =>
        IF Len(inp.data) >= 16 /\ SubSeq(inp.data, 1, 16) = kernelCmdlinePrefix
        THEN /\ res.kind = "KernelCmdline"
             /\ RawBytes(res) = inp.data
             /\ MeasuredBytes(res) = Some(AfterPrefixWithoutNUL(inp.data, 16))
        ELSE IF Len(inp.data) >= 10 /\ SubSeq(inp.data, 1, 10) = grubCmdPrefix
        THEN /\ res.kind = "GrubCmd"
             /\ RawBytes(res) = inp.data
             /\ MeasuredBytes(res) = Some(AfterPrefixWithoutNUL(inp.data, 10))
        ELSE res.kind = "Opaque" /\ RawBytes(res) = inp.data

\* "kernel_cmdline: x\0" was decoded; its measured bytes are "x"
C14_Witness ==
    /\ pc = "makeEventData"
    /\ inp.eventType = "EventTypeIPL" /\ inp.pcrIndex = 8
    /\ inp.data = kernelCmdlinePrefix \o <<120, 0>>
    /\ res.kind = "KernelCmdline" /\ MeasuredBytes(res) = Some(<<120>>)

\* no incorrect digest is found for the event with input i's PCR, type and
\* payload, whatever digests are recorded and whatever the latched behaviour
NoIncorrectDigest(i) ==
    \A d \in {DigestsOf(i.data), DigestsOf(<<1>>), [alg \in ReplayAlgorithms |-> ZeroDigest]} :
        \A beh \in {"EFIBootVariableBehaviourUnknown", "EFIBootVariableBehaviourFull",
                    "EFIBootVariableBehaviourVarDataOnly"} :
            ValidateEvent(ReplayEvent(i.pcrIndex, i.eventType, i.data, d), <<4, 11>>, beh)
                .ve.IncorrectDigestValues = <<>>

\* C15: every IPL event in PCR 9 decodes to an informational AsciiString
\* without measured bytes, and no incorrect digest is found for it; every
\* Action and EFIAction event decodes to a non-informational AsciiString whose
\* measured bytes are the payload.
C15_AsciiStrings ==
    /\ (pc = "makeEventData" /\ inp.eventType = "EventTypeIPL" /\ inp.pcrIndex = 9) =>
           /\ res = [kind |-> "AsciiString", data |-> inp.data, informational |-> TRUE]
           /\ MeasuredBytes(res) = None
           /\ NoIncorrectDigest(inp)
    /\ (pc = "makeEventData" /\ inp.eventType \in {"EventTypeAction", "EventTypeEFIAction"}) =>
           /\ res = [kind |-> "AsciiString", data |-> inp.data, informational |-> FALSE]
           /\ RawBytes(res) = inp.data
           /\ MeasuredBytes(res) = Some(inp.data)

\* the string "TEST\0" of an IPL event in PCR 9 was decoded
C15_Witness ==
    /\ pc = "makeEventData"
    /\ inp.eventType = "EventTypeIPL" /\ inp.pcrIndex = 9
    /\ inp.data = <<84, 69, 83, 84, 0>>
    /\ res.kind = "AsciiString" /\ res.informational

ImageLoadEventTypes ==
    {"EventTypeEFIBootServicesApplication", "EventTypeEFIBootServicesDriver",
     "EventTypeEFIRuntimeServicesDriver"}

\* C16: the event data that makeEventData returns for an image-load event,
\* decoded or opaque, has no measured bytes, and no incorrect digest is found
\* for the event whatever digests are recorded.
C16_ImageLoadNotMeasured ==
    (pc = "makeEventData" /\ inp.eventType \in ImageLoadEventTypes /\ res # Panic) =>
        /\ res.kind \in {"EFIImageLoad", "Opaque"}
        /\ MeasuredBytes(res) = None
        /\ NoIncorrectDigest(inp)

\* an image-load event was decoded with a device path of one node
C16_Witness ==
    /\ pc = "makeEventData"
    /\ inp.eventType = "EventTypeEFIBootServicesDriver"
    /\ res.kind = "EFIImageLoad" /\ Len(res.Path) = 1
    /\ MeasuredBytes(res) = None

\* C17: opaque event data has the payload as its measured bytes exactly when
\* the event type is EventTag, SCRTMVersion, PlatformConfigFlags,
\* TableOfDevices, NonhostInfo, OmitBootDeviceEvents or EFIGPTEvent, and has
\* no measured bytes for every other event type.
C17_OpaqueClassification ==
    (pc = "makeEventData" /\ res.kind = "Opaque") =>
        /\ RawBytes(res) = inp.data
        /\ IF inp.eventType \in {"EventTypeEventTag", "EventTypeSCRTMVersion",
                                 "EventTypePlatformConfigFlags", "EventTypeTableOfDevices",
                                 "EventTypeNonhostInfo", "EventTypeOmitBootDeviceEvents",
                                 "EventTypeEFIGPTEvent"}
           THEN MeasuredBytes(res) = Some(inp.data)
           ELSE MeasuredBytes(res) = None

\* an EFIGPTEvent payload was kept as measured opaque data
C17_Witness ==
    /\ pc = "makeEventData"
    /\ inp.eventType = "EventTypeEFIGPTEvent" /\ inp.data = <<84, 69, 83, 84>>
    /\ res.kind = "Opaque" /\ MeasuredBytes(res) = Some(<<84, 69, 83, 84>>)

\* m is a contiguous sub-range of d
IsSubRange(m, d) ==
    \E a \in 0..Len(d) : \E b \in a..Len(d) : SubSeq(d, a + 1, b) = m

\* C18: makeEventData returns event data for every PCR, event type and
\* payload; its raw bytes are the payload and its measured bytes, if any, are
\* a contiguous sub-range of the payload.
C18_TotalAndLossless ==
    pc = "makeEventData" =>
        /\ res # Panic
        /\ res # Nil
        /\ RawBytes(res) = inp.data
        /\ MeasuredBytes(res) = None \/ IsSubRange(MeasuredBytes(res).bytes, inp.data)

(***************************************************************************)
(* tcglog-validate/main.go: the validate command.  inp is the command      *)
(* line; res holds the variables of main and the state of the TPM device.  *)
(* The outcome of the replay, of opening the device and of reading its     *)
(* PCRs is chosen when the step is taken.                                  *)
(***************************************************************************)
RECURSIVE InsertSorted(_, _)
InsertSorted(sorted, x) ==
    IF sorted = <<>> THEN <<x>>
    ELSE IF x < sorted[Len(sorted)]
    THEN Append(InsertSorted(SubSeq(sorted, 1, Len(sorted) - 1), x), sorted[Len(sorted)])
    ELSE Append(sorted, x)

RECURSIVE SortSliceStable(_)
\* sort.SliceStable(pcrs, less)
SortSliceStable(q) ==
    IF q = <<>> THEN <<>>
    ELSE InsertSorted(SortSliceStable(SubSeq(q, 1, Len(q) - 1)), q[Len(q)])

\* the PCRs selected by -pcr, -no-default-pcrs and -with-grub
selectedPCRs(pcrFlags, noDefaultPcrs, withGrub) ==
    SortSliceStable(pcrFlags
                    \o (IF noDefaultPcrs THEN <<>> ELSE <<0, 1, 2, 3, 4, 5, 6, 7>>)
                    \o (IF ~noDefaultPcrs /\ withGrub THEN <<8, 9>> ELSE <<>>))

\* variant: the TPM path survives an explicit log path
tpmPathFor_kept(logPath, tpmPath) == tpmPath

\* tpmPath after the log path was settled: cleared by an explicit log path
tpmPathFor(logPath, tpmPath) == IF logPath = "" THEN tpmPath ELSE ""

\* variant: only the first algorithm is compared
comparedPairs_firstAlgorithm(pcrList, algs) ==
    [k \in 1..(IF algs = <<>> THEN 0 ELSE Len(pcrList)) |-> <<pcrList[k], algs[1]>>]

\* the pairs (PCR, algorithm) in the order of the comparison loops
comparedPairs(pcrList, algs) ==
    [k \in 1..(Len(pcrList) * Len(algs)) |->
        <<pcrList[((k - 1) \div Len(algs)) + 1], algs[((k - 1) % Len(algs)) + 1]>>]

\* result.ExpectedPCRValues[i][alg]
ExpectedPCRValue(i, alg) == <<i, alg>>

\* PCR banks that differ from the log's expected values in the device
DifferPairs == {<<0, 4>>, <<7, 11>>, <<9, 4>>}

\* the map readPCRs returns from a device of this version whose PCRs differ
\* from the expected values for the pairs of differ: a TPM 1.2 device gives
\* SHA-1 values only
readPCRsFromDevice(version, pcrList, algs, differ) ==
    [i \in {pcrList[k] : k \in 1..Len(pcrList)} |->
        [alg \in IF version = 2 THEN {algs[k] : k \in 1..Len(algs)} ELSE {4} |->
            IF <<i, alg>> \in differ THEN <<255>> ELSE ExpectedPCRValue(i, alg)]]

\* tpmPCRValues[i][alg]: nil for a missing key
TPMPCRValue(values, i, alg) ==
    IF i \in DOMAIN values /\ alg \in DOMAIN values[i] THEN values[i][alg] ELSE <<>>

ValidateInputs ==
    {[tooManyArgs |-> a, noDefaultPcrs |-> n, withGrub |-> g, pcrs |-> p, logPath |-> l,
      tpmPath |-> t, algorithms |-> algs] :
        a \in BOOLEAN, n \in BOOLEAN, g \in BOOLEAN, p \in {<<>>, <<9>>, <<7, 0>>},
        l \in {"", "/tmp/log"}, t \in {"/dev/tpm0", "/tmp/tpm0"},
        algs \in {<<>>, <<4>>, <<11>>, <<11, 4>>}}

InitValidate ==
    /\ pc = "main"
    /\ inp \in ValidateInputs
    /\ res = [pcrs |-> inp.pcrs, logPath |-> inp.logPath, tpmPath |-> inp.tpmPath,
              algorithms |-> inp.algorithms, replayed |-> FALSE, resultAlgorithms |-> <<>>,
              algorithmsChecked |-> FALSE, tpm |-> "unopened", tpmVersion |-> 0,
              tpmDiffer |-> {}, tpmPCRValues |-> <<>>, err |-> FALSE, k |-> 0,
              discrepancies |-> <<>>, broken |-> FALSE, exit |-> -1]
    /\ ReplayIdle

Exit(code) ==
    /\ pc' = "exit"
    /\ res' = [res EXCEPT !.exit = code]

\* flag.Parse, the arguments, the selected PCRs
ValidateParseArgs ==
    /\ pc = "main"
    /\ IF inp.tooManyArgs THEN Exit(1)
       ELSE /\ pc' = "paths"
            /\ res' = [res EXCEPT !.pcrs = selectedPCRs(inp.pcrs, inp.noDefaultPcrs,
                                                        inp.withGrub)]
    /\ UNCHANGED <<inp, log, idx, pcr, validated, behaviour>>

\* the log path is derived from the TPM path, or the TPM path is cleared
ValidatePaths ==
    /\ pc = "paths"
    /\ IF res.logPath = "" /\ res.tpmPath # "/dev/tpm0" THEN Exit(1)
       ELSE /\ pc' = "replay"
            /\ res' = [res EXCEPT
                          !.logPath = IF @ = "" THEN "/sys/kernel/security/tpm0/binary_bios_measurements"
                                      ELSE @,
                          !.tpmPath = tpmPathFor(res.logPath, res.tpmPath)]
    /\ UNCHANGED <<inp, log, idx, pcr, validated, behaviour>>

\* tcglog.ReplayAndValidateLog fails, or returns a result with the log's
\* algorithms
ValidateReplay ==
    /\ pc = "replay"
    /\ \/ Exit(1)
       \/ \E algs \in {<<4>>, <<4, 11>>} :
             /\ pc' = "algorithms"
             /\ res' = [res EXCEPT !.replayed = TRUE, !.resultAlgorithms = algs]
    /\ UNCHANGED <<inp, log, idx, pcr, validated, behaviour>>

\* the requested algorithms default to the log's and must all be in the log
ValidateAlgorithms ==
    /\ pc = "algorithms"
    /\ LET algs == IF res.algorithms = <<>> THEN res.resultAlgorithms ELSE res.algorithms
       IN  IF \E k \in 1..Len(algs) :
                 \A j \in 1..Len(res.resultAlgorithms) : res.resultAlgorithms[j] # algs[k]
           THEN /\ pc' = "exit"
                /\ res' = [res EXCEPT !.algorithms = algs, !.exit = 1]
           ELSE /\ pc' = "report"
                /\ res' = [res EXCEPT !.algorithms = algs, !.algorithmsChecked = TRUE]
    /\ UNCHANGED <<inp, log, idx, pcr, validated, behaviour>>

\* the findings of the replay are printed; without a TPM path the expected
\* PCR values are printed and main returns
ValidateReport ==
    /\ pc = "report"
    /\ IF res.tpmPath = "" THEN Exit(0)
       ELSE pc' = "readPCRs" /\ res' = res
    /\ UNCHANGED <<inp, log, idx, pcr, validated, behaviour>>

\* readPCRs: tpm2.OpenTPMDevice
ReadPCRsOpen ==
    /\ pc = "readPCRs"
    /\ \/ pc' = "readPCRs returned" /\ res' = [res EXCEPT !.err = TRUE]
       \/ pc' = "readPCRs opened" /\ res' = [res EXCEPT !.tpm = "open"]
    /\ UNCHANGED <<inp, log, idx, pcr, validated, behaviour>>

\* readPCRs: getTPMDeviceVersion and the read for that version
ReadPCRsRead ==
    /\ pc = "readPCRs opened"
    /\ pc' = "readPCRs defer"
    /\ \E version \in 0..2 :
          \/ res' = [res EXCEPT !.tpmVersion = version, !.err = TRUE]
          \/ /\ version # 0
             /\ \E differ \in SUBSET DifferPairs :
                   res' = [res EXCEPT
                              !.tpmVersion = version, !.tpmDiffer = differ,
                              !.tpmPCRValues = readPCRsFromDevice(version, res.pcrs,
                                                                  res.algorithms, differ)]
    /\ UNCHANGED <<inp, log, idx, pcr, validated, behaviour>>

\* readPCRs: the deferred tpm.Close
ReadPCRsClose ==
    /\ pc = "readPCRs defer"
    /\ pc' = "readPCRs returned"
    /\ res' = [res EXCEPT !.tpm = "closed"]
    /\ UNCHANGED <<inp, log, idx, pcr, validated, behaviour>>

\* main after readPCRs
ValidateReadPCRs ==
    /\ pc = "readPCRs returned"
    /\ IF res.err THEN Exit(1) ELSE pc' = "compare" /\ res' = res
    /\ UNCHANGED <<inp, log, idx, pcr, validated, behaviour>>

\* one iteration of the comparison loops
ValidateCompare ==
    /\ pc = "compare"
    /\ res.k < Len(comparedPairs(res.pcrs, res.algorithms))
    /\ LET pair == comparedPairs(res.pcrs, res.algorithms)[res.k + 1]
       IN  res' = [res EXCEPT
                      !.k = @ + 1,
                      !.discrepancies =
                          IF ExpectedPCRValue(pair[1], pair[2])
                                 = TPMPCRValue(res.tpmPCRValues, pair[1], pair[2])
                          THEN @ ELSE Append(@, pair)]
    /\ UNCHANGED <<pc, inp, log, idx, pcr, validated, behaviour>>

\* the end of the comparison: the log is declared broken or not
ValidateFinish ==
    /\ pc = "compare"
    /\ res.k = Len(comparedPairs(res.pcrs, res.algorithms))
    /\ pc' = "exit"
    /\ res' = [res EXCEPT !.broken = (res.discrepancies # <<>>), !.exit = 0]
    /\ UNCHANGED <<inp, log, idx, pcr, validated, behaviour>>

NextValidate ==
    \/ ValidateParseArgs
    \/ ValidatePaths
    \/ ValidateReplay
    \/ ValidateAlgorithms
    \/ ValidateReport
    \/ ReadPCRsOpen
    \/ ReadPCRsRead
    \/ ReadPCRsClose
    \/ ValidateReadPCRs
    \/ ValidateCompare
    \/ ValidateFinish

SpecValidate == InitValidate /\ [][NextValidate]_vars

(***************************************************************************)
(* Properties of the validate command, checked under SpecValidate.         *)
(***************************************************************************)
\* the value the device holds for a PCR and an algorithm, as main sees it:
\* a TPM 1.2 device has SHA-1 values only
DeviceValue(version, differ, i, alg) ==
    IF version = 1 /\ alg # 4 THEN <<>>
    ELSE IF <<i, alg>> \in differ THEN <<255>>
    ELSE ExpectedPCRValue(i, alg)

\* the pairs of selected PCR and selected algorithm whose expected value
\* differs from the device's
DifferingPairs ==
    {pair \in {res.pcrs[k] : k \in 1..Len(res.pcrs)}
              \X {res.algorithms[k] : k \in 1..Len(res.algorithms)} :
        ExpectedPCRValue(pair[1], pair[2])
            # DeviceValue(res.tpmVersion, res.tpmDiffer, pair[1], pair[2])}

\* the PCR values were read from the device and the comparison has ended
Compared == pc = "exit" /\ res.exit = 0 /\ res.tpm = "closed"

\* C19: when the PCR values were read from a live TPM, the discrepancies
\* reported are exactly the pairs (PCR i, algorithm alg), i a selected PCR and
\* alg a selected algorithm, whose expected value from the log differs from
\* the value read from the TPM, and the log is declared broken if and only if
\* there is such a pair; no log is declared broken without the comparison.
C19_PCRComparison ==
    /\ Compared =>
          /\ {res.discrepancies[k] : k \in 1..Len(res.discrepancies)} = DifferingPairs
          /\ res.broken <=> DifferingPairs # {}
    /\ res.broken => Compared

\* a TPM 2.0 device differs from the log in two selected banks and the log is
\* declared broken
C19_Witness ==
    /\ Compared
    /\ res.tpmVersion = 2
    /\ res.broken
    /\ Cardinality(DifferingPairs) = 2
    /\ Cardinality(DifferingPairs) < Len(comparedPairs(res.pcrs, res.algorithms))

\* C20: the TPM device is opened only after the log was replayed without
\* error and the requested algorithms were found in the log, never when an
\* explicit log path was given, and it is open only inside readPCRs: it is
\* closed when readPCRs has returned, on every path.
C20_TPMAcquisitionOrdering ==
    /\ res.tpm # "unopened" =>
          /\ res.replayed
          /\ res.algorithmsChecked
          /\ inp.logPath = ""
          /\ ~inp.tooManyArgs
    /\ res.tpm = "open" => pc \in {"readPCRs opened", "readPCRs defer"}
    /\ pc \in {"readPCRs returned", "compare", "exit"} => res.tpm # "open"

\* the device was opened, the read failed, and the device is closed when
\* readPCRs has returned the error
C20_Witness ==
    /\ pc = "readPCRs returned"
    /\ res.err
    /\ res.tpm = "closed"

(***************************************************************************)
(* efi.go: the remaining event-data decoders.  Bytes() of a decoded value  *)
(* is its data field; a field the constructor leaves out is Go's nil       *)
(* slice, the empty sequence here.                                         *)
(***************************************************************************)
\* efi.go decodeBIMReferenceManifestEvent, reading after the signature
decodeBIMReferenceManifestEvent(data, pos) ==
    IF ~CanRead(data, pos, 4) THEN Nil
    ELSE IF ~decodeEFIGUID(data, pos + 4).ok THEN Nil
    ELSE [kind |-> "BIMReferenceManifest", data |-> data,
          VendorId |-> ReadBytes(data, pos, 4), Guid |-> decodeEFIGUID(data, pos + 4)]

\* make([]EFIGPTPartitionEntry, numberOfParts), 56 bytes an entry: the
\* runtime aborts the process when the slice would exceed 2^48 bytes, which
\* it does when numberOfParts is 5 * 2^40 or more
MakePartitionsPanics(data, pos) ==
    data[pos + 6] >= 5 \/ data[pos + 7] # 0 \/ data[pos + 8] # 0

\* the reads of decodeEventDataEFIGPTImpl up to numberOfParts; Seek beyond
\* the end of a bytes.Reader succeeds, the read that follows it fails
EFIGPTHeaderOK(data) ==
    decodeEFIGUID(data, 56).ok /\ CanRead(data, 84, 4) /\ CanRead(data, 92, 8)

\* the name of a partition entry: the code units that follow its attributes
EFIGPTName(entryData) ==
    utf16Decode([k \in 1..((Len(entryData) - 56) \div 2) |-> U16LE(entryData, 56 + 2 * (k - 1))])

\* one iteration of the partition loop of decodeEventDataEFIGPTImpl
EFIGPTIteration(data, partEntrySize, s) ==
    IF ~CanRead(data, s.pos, partEntrySize) THEN [s EXCEPT !.err = TRUE]
    ELSE LET entryData == ReadBytes(data, s.pos, partEntrySize)
         IN  IF ~decodeEFIGUID(entryData, 0).ok \/ ~decodeEFIGUID(entryData, 16).ok
                \/ ~CanRead(entryData, 48, 8)
             THEN [s EXCEPT !.err = TRUE]
             ELSE [pos |-> s.pos + partEntrySize, i |-> s.i + 1, err |-> FALSE,
                   Partitions |->
                       Append(s.Partitions,
                              [TypeGUID |-> decodeEFIGUID(entryData, 0),
                               UniqueGUID |-> decodeEFIGUID(entryData, 16),
                               Attrs |-> ReadBytes(entryData, 48, 8),
                               Name |-> EFIGPTName(entryData)])]

RECURSIVE EFIGPTLoop(_, _, _, _)
EFIGPTLoop(data, partEntrySize, numberOfParts, s) ==
    IF s.err \/ s.i >= numberOfParts THEN s
    ELSE EFIGPTLoop(data, partEntrySize, numberOfParts,
                    EFIGPTIteration(data, partEntrySize, s))

\* the return of decodeEventDataEFIGPTImpl after the partition loop ended
\* in state s; the data field of the event data is not set; n is bytesRead
EFIGPTAfterPartitions(data, s) ==
    IF s.err THEN Nil
    ELSE [kind |-> "EFIGPT", data |-> <<>>, DiskGUID |-> decodeEFIGUID(data, 56),
          Partitions |-> s.Partitions, n |-> s.pos]

decodeEventDataEFIGPTImpl(data) ==
    IF ~EFIGPTHeaderOK(data) THEN Nil
    ELSE IF MakePartitionsPanics(data, 92) THEN Panic
    ELSE EFIGPTAfterPartitions(data,
             EFIGPTLoop(data, U32LE(data, 84), U64LE(data, 92),
                        [pos |-> 100, i |-> 0, err |-> FALSE, Partitions |-> <<>>]))

\* EventData.Bytes() of the efi.go event data
Bytes(e) == e.data

(***************************************************************************)
(* The decoders run step by step: inp names a decoder and its payload, pc  *)
(* is the position in the decoder and res the state of its loop, and at    *)
(* "done" what the decoder returned.                                       *)
(***************************************************************************)
\* partition entries of a generated UEFI_GPT_DATA payload
MaxParts == 2

\* "SP800-155 Event" and a NUL
SigBIMReferenceManifest ==
    <<83, 80, 56, 48, 48, 45, 49, 53, 53, 32, 69, 118, 101, 110, 116, 0>>

\* the k-th partition entry, with a one-character name and an odd byte
GPTEntryFull(k) ==
    EFIGlobalVariableGUID \o EFIGlobalVariableGUID \o [j \in 1..16 |-> 0] \o LE64(k)
    \o <<64 + k, 0, 7>>

\* UEFI_GPT_DATA up to NumberOfPartitions
GPTHeader(partEntrySize, numberOfPartitions) ==
    [j \in 1..56 |-> 0] \o EFIGlobalVariableGUID \o [j \in 1..12 |-> 0]
    \o LE32(partEntrySize) \o <<0, 0, 0, 0>> \o numberOfPartitions

GPTInputs ==
    {[partEntrySize |-> sz, numberOfPartitions |-> n, entries |-> e, cut |-> c] :
        sz \in {0, 55, 56, 58, 59},
        n \in {LE64(k) : k \in 0..(MaxParts + 1)}
              \cup {<<0, 0, 0, 0, 1, 0, 0, 0>>, <<0, 0, 0, 0, 0, 0, 0, 128>>},
        e \in 0..MaxParts, c \in 0..MaxCut}

GPTPayloadFull(i) ==
    GPTHeader(i.partEntrySize, i.numberOfPartitions)
    \o Flatten([k \in 1..i.entries |-> Take(GPTEntryFull(k), i.partEntrySize)])

GPTPayload(i) == Take(GPTPayloadFull(i), Len(GPTPayloadFull(i)) - i.cut)

DecoderInputs ==
    {[decoder |-> "StartupLocality", data |-> d] :
        d \in {SigStartupLocality \o <<3>>, SigStartupLocality \o <<3, 0>>, SigStartupLocality}}
    \cup {[decoder |-> "BIMReferenceManifest", data |-> Take(d, Len(d) - c)] :
            d \in {SigBIMReferenceManifest \o LE32(7) \o EFIGlobalVariableGUID,
                   SigBIMReferenceManifest \o LE32(7) \o EFIGlobalVariableGUID \o <<0>>},
            c \in {0, 1, 2, 17}}
    \cup {[decoder |-> "EFIVariable", data |-> EFIVariablePayload(i)] : i \in EFIVariableInputs}
    \cup {[decoder |-> "EFIVariable", data |-> pl.data] : pl \in VariablePayloads}
    \cup {[decoder |-> d, data |-> ImageLoadEventPayload(i)] :
            d \in {"EFIImageLoad", "makeEventDataImageLoad"},
            i \in {j \in DevicePathInputs : j.fill <= 2 /\ j.cut <= Len(DevicePathBufFull(j))}}
    \cup {[decoder |-> d, data |-> pl.data] :
            d \in {"EFIImageLoad", "makeEventDataImageLoad"}, pl \in ImageLoadPayloads}
    \cup {[decoder |-> "EFIGPT", data |-> GPTPayload(i)] : i \in GPTInputs}
    \cup {[decoder |-> "EFIGPT", data |-> Take(GPTHeader(56, LE64(0)), n)] :
            n \in {0, 55, 71, 72, 87, 91, 99}}

InitDecoders ==
    /\ pc = "input"
    /\ inp \in DecoderInputs
    /\ res = Nil
    /\ ReplayIdle

\* decodeStartupLocalityEvent on the stream after the signature
DecodeStartupLocality ==
    /\ pc = "input" /\ inp.decoder = "StartupLocality"
    /\ pc' = "done"
    /\ res' = decodeStartupLocalityEvent(inp.data, 16)
    /\ UNCHANGED <<inp, log, idx, pcr, validated, behaviour>>

\* decodeBIMReferenceManifestEvent on the stream after the signature
DecodeBIMReferenceManifest ==
    /\ pc = "input" /\ inp.decoder = "BIMReferenceManifest"
    /\ pc' = "done"
    /\ res' = decodeBIMReferenceManifestEvent(inp.data, 16)
    /\ UNCHANGED <<inp, log, idx, pcr, validated, behaviour>>

\* decodeEventDataEFIVariableImpl: the GUID and the two lengths
DecodeEFIVariableHeader ==
    /\ pc = "input" /\ inp.decoder = "EFIVariable"
    /\ IF EFIVariableHeaderOK(inp.data)
       THEN /\ pc' = "extractUTF16Buffer"
            /\ res' = [pos |-> 32, i |-> U64LE(inp.data, 16), out |-> <<>>, err |-> FALSE]
       ELSE /\ pc' = "done"
            /\ res' = Nil
    /\ UNCHANGED <<inp, log, idx, pcr, validated, behaviour>>

\* one iteration of the loop of extractUTF16Buffer
DecodeEFIVariableName ==
    /\ pc = "extractUTF16Buffer"
    /\ ~res.err /\ res.i > 0
    /\ res' = utf16Iteration(inp.data, res)
    /\ UNCHANGED <<pc, inp, log, idx, pcr, validated, behaviour>>

\* decodeEventDataEFIVariableImpl after extractUTF16Buffer returned
DecodeEFIVariableData ==
    /\ pc = "extractUTF16Buffer"
    /\ res.err \/ res.i = 0
    /\ pc' = "done"
    /\ res' = EFIVariableAfterName(inp.data, res)
    /\ UNCHANGED <<inp, log, idx, pcr, validated, behaviour>>

\* the reads of both image-load decoders up to the device path: the device
\* path buffer, no event data, or the abort of make
ImageLoadHeader(data) ==
    IF ~CanRead(data, 0, 8) \/ ~CanRead(data, 8, 8) \/ ~CanRead(data, 16, 8)
       \/ ~CanRead(data, 24, 8)
    THEN Nil
    ELSE IF MakeSlicePanics(data, 24) THEN Panic
    ELSE IF ~CanRead(data, 32, U64LE(data, 24)) THEN Nil
    ELSE [buf |-> ReadBytes(data, 32, U64LE(data, 24)), pos |-> 0, nodes |-> <<>>,
          stop |-> ""]

\* one iteration of the loop of readDevicePath, r being the node read: the
\* loop ends when no node was read and at an End-of-Hardware node
DevicePathIteration(r, s) ==
    IF ~r.ok THEN [s EXCEPT !.stop = "nil"]
    ELSE IF r.node.t = efiDevicePathNodeEoH THEN [s EXCEPT !.pos = r.pos, !.stop = "eoh"]
    ELSE [s EXCEPT !.pos = r.pos, !.nodes = Append(@, r.node)]

\* the event data of an image-load event with this device path
ImageLoadEventData(data, path) ==
    [kind |-> "EFIImageLoad", data |-> data,
     LocationInMemory |-> ReadBytes(data, 0, 8),
     LengthInMemory |-> ReadBytes(data, 8, 8),
     LinkTimeAddress |-> ReadBytes(data, 16, 8),
     Path |-> path]

\* efi.go decodeEventDataEFIImageLoadImpl up to readDevicePath
DecodeImageLoadHeader ==
    /\ pc = "input" /\ inp.decoder = "EFIImageLoad"
    /\ res' = ImageLoadHeader(inp.data)
    /\ pc' = IF res' \in {Nil, Panic} THEN "done" ELSE "efi.go readDevicePath"
    /\ UNCHANGED <<inp, log, idx, pcr, validated, behaviour>>

\* efi.go readDevicePath: one iteration
DecodeImageLoadNode ==
    /\ pc = "efi.go readDevicePath"
    /\ res.stop = ""
    /\ res' = DevicePathIteration(readDevicePathNode(res.buf, res.pos), res)
    /\ UNCHANGED <<pc, inp, log, idx, pcr, validated, behaviour>>

\* efi.go: readDevicePath returns an empty path when a node could not be
\* read, and decodeEventDataEFIImageLoadImpl returns the event data
DecodeImageLoadReturn ==
    /\ pc = "efi.go readDevicePath"
    /\ res.stop # ""
    /\ pc' = "done"
    /\ res' = ImageLoadEventData(inp.data, IF res.stop = "nil" THEN <<>> ELSE res.nodes)
                   @@ [n |-> 32 + Len(res.buf)]
    /\ UNCHANGED <<inp, log, idx, pcr, validated, behaviour>>

\* eventdata.go makeEventDataImageLoad up to readDevicePath
MakeImageLoadHeader ==
    /\ pc = "input" /\ inp.decoder = "makeEventDataImageLoad"
    /\ res' = ImageLoadHeader(inp.data)
    /\ pc' = IF res' \in {Nil, Panic} THEN "done" ELSE "eventdata.go readDevicePath"
    /\ UNCHANGED <<inp, log, idx, pcr, validated, behaviour>>

\* eventdata.go readDevicePath: one iteration
MakeImageLoadNode ==
    /\ pc = "eventdata.go readDevicePath"
    /\ res.stop = ""
    /\ res' = DevicePathIteration(legacy_readDevicePathNode(res.buf, res.pos), res)
    /\ UNCHANGED <<pc, inp, log, idx, pcr, validated, behaviour>>

\* eventdata.go: readDevicePath returns nil when a node could not be read,
\* and makeEventDataImageLoad then returns no event data
MakeImageLoadReturn ==
    /\ pc = "eventdata.go readDevicePath"
    /\ res.stop # ""
    /\ pc' = "done"
    /\ res' = IF res.stop = "nil" THEN Nil ELSE ImageLoadEventData(inp.data, res.nodes)
    /\ UNCHANGED <<inp, log, idx, pcr, validated, behaviour>>

\* decodeEventDataEFIGPTImpl up to the partition loop
DecodeEFIGPTHeader ==
    /\ pc = "input" /\ inp.decoder = "EFIGPT"
    /\ IF ~EFIGPTHeaderOK(inp.data) THEN pc' = "done" /\ res' = Nil
       ELSE IF MakePartitionsPanics(inp.data, 92) THEN pc' = "done" /\ res' = Panic
       ELSE /\ pc' = "partitions"
            /\ res' = [pos |-> 100, i |-> 0, err |-> FALSE, Partitions |-> <<>>]
    /\ UNCHANGED <<inp, log, idx, pcr, validated, behaviour>>

\* one iteration of the partition loop
DecodeEFIGPTPartition ==
    /\ pc = "partitions"
    /\ ~res.err /\ res.i < U64LE(inp.data, 92)
    /\ res' = EFIGPTIteration(inp.data, U32LE(inp.data, 84), res)
    /\ UNCHANGED <<pc, inp, log, idx, pcr, validated, behaviour>>

\* the return of decodeEventDataEFIGPTImpl
DecodeEFIGPTReturn ==
    /\ pc = "partitions"
    /\ res.err \/ res.i >= U64LE(inp.data, 92)
    /\ pc' = "done"
    /\ res' = EFIGPTAfterPartitions(inp.data, res)
    /\ UNCHANGED <<inp, log, idx, pcr, validated, behaviour>>

NextDecoders ==
    \/ DecodeStartupLocality
    \/ DecodeBIMReferenceManifest
    \/ DecodeEFIVariableHeader
    \/ DecodeEFIVariableName
    \/ DecodeEFIVariableData
    \/ DecodeImageLoadHeader
    \/ DecodeImageLoadNode
    \/ DecodeImageLoadReturn
    \/ MakeImageLoadHeader
    \/ MakeImageLoadNode
    \/ MakeImageLoadReturn
    \/ DecodeEFIGPTHeader
    \/ DecodeEFIGPTPartition
    \/ DecodeEFIGPTReturn

SpecDecoders == InitDecoders /\ [][NextDecoders]_vars

\* the step-by-step decoders return what the decoders return
DecodersAgree ==
    pc = "done" =>
        res = CASE inp.decoder = "EFIVariable" -> decodeEventDataEFIVariableImpl(inp.data)
                [] inp.decoder = "EFIImageLoad" -> decodeEventDataEFIImageLoadImpl(inp.data)
                [] inp.decoder = "makeEventDataImageLoad" -> makeEventDataImageLoad(inp.data)
                [] inp.decoder = "EFIGPT" -> decodeEventDataEFIGPTImpl(inp.data)
                [] OTHER -> res

(***************************************************************************)
(* Properties of the decoders, checked under SpecDecoders.                 *)
(***************************************************************************)
EFIDecoders == {"StartupLocality", "BIMReferenceManifest", "EFIVariable", "EFIImageLoad", "EFIGPT"}

\* the decoder returned event data
Decoded == pc = "done" /\ res # Nil /\ res # Panic

\* C21: the raw-bytes view Bytes() of every value decoded by an efi.go
\* event-data decoder (EFI variable, image load, GPT, startup locality, BIM
\* reference manifest) is the payload that was passed to the decoder; a
\* decoded EFIGPT event returns the full UEFI_GPT_DATA payload.
C21_BytesIsPayload ==
    Decoded /\ inp.decoder \in EFIDecoders => Bytes(res) = inp.data

\* the payload holds the 100-byte prefix and numberOfParts complete entries
\* of partEntrySize bytes, which is 56 or more when there is an entry
GPTWellFormed(data, partEntrySize, numberOfParts) ==
    \/ numberOfParts = 0
    \/ /\ partEntrySize >= 56
       /\ partEntrySize <= Len(data) /\ numberOfParts <= Len(data)
       /\ 100 + numberOfParts * partEntrySize <= Len(data)

\* the attributes of the k-th entry of the payload
GPTAttrsAt(data, partEntrySize, k) == ReadBytes(data, 100 + (k - 1) * partEntrySize + 48, 8)

GPTSuccess(data, partEntrySize, numberOfParts) ==
    /\ res # Nil /\ res # Panic
    /\ Len(res.Partitions) = numberOfParts
    /\ \A k \in 1..Len(res.Partitions) :
          /\ res.Partitions[k].Attrs = GPTAttrsAt(data, partEntrySize, k)
          /\ res.Partitions[k].TypeGUID
                 = decodeEFIGUID(data, 100 + (k - 1) * partEntrySize)
    /\ res.n = 100 + numberOfParts * partEntrySize
    /\ res.n <= Len(data)

\* C22: decodeEventDataEFIGPTImpl succeeds exactly when the payload holds the
\* 100-byte prefix followed by numberOfPartitions complete entries of
\* sizeOfPartitionEntry bytes, sizeOfPartitionEntry being 56 or more when
\* there is an entry; on success it returns numberOfPartitions partitions in
\* payload order and has consumed 100 + numberOfPartitions *
\* sizeOfPartitionEntry bytes, no more than the payload; otherwise it returns
\* an error and no event data.
C22_GPTDecoding ==
    pc = "done" /\ inp.decoder = "EFIGPT" =>
        IF Len(inp.data) >= 100
           /\ GPTWellFormed(inp.data, U32LE(inp.data, 84), U64LE(inp.data, 92))
        THEN GPTSuccess(inp.data, U32LE(inp.data, 84), U64LE(inp.data, 92))
        ELSE res = Nil

\* the bytes an iteration of the UTF-16 loop at pos consumes when its reads
\* succeed: 4 for a surrogate pair, 3 after the pushback, 2 otherwise
UTF16Advance(data, pos) ==
    IF ~IsHighSurrogate(U16LE(data, pos)) THEN 2
    ELSE IF IsLowSurrogate(U16LE(data, pos + 2)) THEN 4
    ELSE 3

\* every iteration of a decoder's loop advances its cursor or ends the loop
LoopProgress ==
    /\ pc = "extractUTF16Buffer" /\ pc' = pc /\ res' # res =>
          \/ res'.err
          \/ /\ res'.pos = res.pos + UTF16Advance(inp.data, res.pos)
             /\ res'.i = res.i - 1
    /\ pc \in {"efi.go readDevicePath", "eventdata.go readDevicePath"} /\ pc' = pc
       /\ res' # res =>
          \/ res'.stop = "nil"
          \/ res'.pos >= res.pos + 4
    /\ pc = "partitions" /\ pc' = pc /\ res' # res =>
          \/ res'.err
          \/ /\ res'.pos = res.pos + U32LE(inp.data, 84)
             /\ res'.pos >= res.pos + 56
             /\ res'.i = res.i + 1

\* the iterations a loop has made are bounded by the bytes it has consumed,
\* which are bytes of the payload
LoopBounded ==
    /\ pc = "extractUTF16Buffer" =>
          /\ 2 * (U64LE(inp.data, 16) - res.i) <= res.pos - 32
          /\ res.pos <= Len(inp.data)
    /\ pc \in {"efi.go readDevicePath", "eventdata.go readDevicePath"} =>
          /\ 4 * Len(res.nodes) <= res.pos
          /\ res.pos <= Len(res.buf)
          /\ 32 + Len(res.buf) <= Len(inp.data)
    /\ pc = "partitions" =>
          /\ 56 * res.i <= res.pos - 100
          /\ res.pos <= Len(inp.data)

\* the decoder returned: event data or an error
Returned == pc = "done" => res # Panic

\* C23: decoding always progresses and terminates, for every payload and
\* every declared count or length up to the maximum of its integer width:
\* each iteration of the UTF-16 extraction loop advances the cursor by 2
\* bytes, by 3 after a pushback, by 4 for a pair, or returns an error; each
\* iteration of the device-path loop consumes at least 4 bytes or stops; each
\* GPT partition iteration consumes its entry or returns an error; so the
\* iterations are bounded by the payload length and every decoder returns.
C23_DecodingProgresses ==
    /\ [][LoopProgress]_vars
    /\ []LoopBounded
    /\ []Returned

(***************************************************************************)
(* EFIGUID.String() of both decoders.  An integer field is held as its     *)
(* bytes, most significant first; fmt prints an integer as the digits of   *)
(* its value and a byte slice or array as two digits a byte, and pads the  *)
(* whole to the width with zeros.                                          *)
(***************************************************************************)
HexDigits == <<"0", "1", "2", "3", "4", "5", "6", "7", "8", "9", "a", "b", "c", "d", "e", "f">>

RECURSIVE HexOfValue(_)
\* the hexadecimal digits of a number, none for zero
HexOfValue(n) == IF n = 0 THEN <<>> ELSE Append(HexOfValue(n \div 16), HexDigits[(n % 16) + 1])

\* zeros up to the width
PadZero(digits, width) ==
    [k \in 1..(IF Len(digits) >= width THEN 0 ELSE width - Len(digits)) |-> "0"] \o digits

\* %0<width>x of an integer of at most 16 bits
FormatUint16(n, width) == PadZero(HexOfValue(n), width)

\* %08x of a uint32 given as four bytes, most significant first: the digits
\* of the upper half and, padded to four, those of the lower half
FormatUint32(b, width) ==
    IF b[1] = 0 /\ b[2] = 0 THEN PadZero(HexOfValue(256 * b[3] + b[4]), width)
    ELSE PadZero(HexOfValue(256 * b[1] + b[2]) \o PadZero(HexOfValue(256 * b[3] + b[4]), 4),
                 width)

\* %0<width>x of a byte slice or array: two digits for every byte
FormatBytes(b, width) ==
    PadZero(Flatten([k \in 1..Len(b) |-> PadZero(HexOfValue(b[k]), 2)]), width)

\* efi.go EFIGUID.String: {%08x-%04x-%04x-%04x-%012x} of A, B, C, D, E
EFIGUIDString(g) ==
    <<"{">> \o FormatUint32(g.A, 8) \o <<"-">> \o FormatUint16(256 * g.B[1] + g.B[2], 4)
    \o <<"-">> \o FormatUint16(256 * g.C[1] + g.C[2], 4)
    \o <<"-">> \o FormatUint16(256 * g.D[1] + g.D[2], 4)
    \o <<"-">> \o FormatBytes(g.E, 12) \o <<"}">>

\* eventdata.go EFIGUID.String: {%08x-%04x-%04x-%04x-%012x} of Data1, Data2,
\* Data3, Data4[0:2], Data4[2:8]
legacy_EFIGUIDString(g) ==
    <<"{">> \o FormatUint32(g.Data1, 8) \o <<"-">>
    \o FormatUint16(256 * g.Data2[1] + g.Data2[2], 4)
    \o <<"-">> \o FormatUint16(256 * g.Data3[1] + g.Data3[2], 4)
    \o <<"-">> \o FormatBytes(SubSeq(g.Data4, 1, 2), 4)
    \o <<"-">> \o FormatBytes(SubSeq(g.Data4, 3, 8), 12) \o <<"}">>

\* bytes a generated GUID takes at the varied positions
GUIDBytes == {0, 1, 171, 255}

\* 16 bytes that vary in A, in D and in E, and the same cut short
GUIDInputs ==
    {Take([EFIGlobalVariableGUID EXCEPT ![1] = a, ![4] = b, ![9] = c, ![10] = d, ![16] = e],
          16 - cut) :
        a \in GUIDBytes, b \in GUIDBytes, c \in GUIDBytes, d \in GUIDBytes, e \in GUIDBytes,
        cut \in {0, 1}}

InitGUID ==
    /\ pc = "input"
    /\ inp \in GUIDInputs
    /\ res = [efi |-> Nil, eventdata |-> Nil]
    /\ ReplayIdle

\* efi.go: decodeEFIGUID and String
DecodeEFIGUIDString ==
    /\ pc = "input"
    /\ res.efi = Nil
    /\ res' = [res EXCEPT !.efi = IF decodeEFIGUID(inp, 0).ok
                                  THEN [ok |-> TRUE, guid |-> decodeEFIGUID(inp, 0),
                                        string |-> EFIGUIDString(decodeEFIGUID(inp, 0))]
                                  ELSE [ok |-> FALSE]]
    /\ UNCHANGED <<pc, inp, log, idx, pcr, validated, behaviour>>

\* eventdata.go: readEFIGUID and String
ReadEFIGUIDString ==
    /\ pc = "input"
    /\ res.eventdata = Nil
    /\ res' = [res EXCEPT !.eventdata = IF readEFIGUID(inp, 0).ok
                                        THEN [ok |-> TRUE, guid |-> readEFIGUID(inp, 0),
                                              string |-> legacy_EFIGUIDString(readEFIGUID(inp, 0))]
                                        ELSE [ok |-> FALSE]]
    /\ UNCHANGED <<pc, inp, log, idx, pcr, validated, behaviour>>

NextGUID == DecodeEFIGUIDString \/ ReadEFIGUIDString

SpecGUID == InitGUID /\ [][NextGUID]_vars

\* the digits of the bytes in the order given, two a byte
DigitsOf(b) == Flatten([k \in 1..Len(b) |-> <<HexDigits[(b[k] \div 16) + 1], HexDigits[(b[k] % 16) + 1]>>])

\* {xxxxxxxx-xxxx-xxxx-xxxx-xxxxxxxxxxxx} of 16 bytes: the first three groups
\* little-endian, the last two in stored order
GUIDForm(d) ==
    <<"{">> \o DigitsOf(<<d[4], d[3], d[2], d[1]>>) \o <<"-">> \o DigitsOf(<<d[6], d[5]>>)
    \o <<"-">> \o DigitsOf(<<d[8], d[7]>>) \o <<"-">> \o DigitsOf(<<d[9], d[10]>>)
    \o <<"-">> \o DigitsOf(SubSeq(d, 11, 16)) \o <<"}">>

\* C24: for every 16-byte input the string of the EFIGUID read by efi.go
\* (fourth group a big-endian u16, then 6 bytes) equals the string of the
\* EFIGUID read by eventdata.go in little-endian order (an 8-byte tail
\* printed as 2 + 6 bytes in stored order), and both have the form
\* {xxxxxxxx-xxxx-xxxx-xxxx-xxxxxxxxxxxx}.
C24_GUIDDisplayEquivalence ==
    res.efi # Nil /\ res.eventdata # Nil /\ Len(inp) = 16 =>
        /\ res.efi.ok /\ res.eventdata.ok
        /\ res.efi.string = res.eventdata.string
        /\ res.efi.string = GUIDForm(inp)
        /\ Len(res.efi.string) = 38

\* both decoders have printed a GUID whose fourth group is not a palindrome
\* of bytes and whose first group has leading zeros
C24_Witness ==
    /\ res.efi # Nil /\ res.eventdata # Nil /\ Len(inp) = 16
    /\ inp[9] = 1 /\ inp[10] = 171
    /\ inp[4] = 0
    /\ res.efi.string = res.eventdata.string

(***************************************************************************)
(* The trailing bytes of validated events, checked under SpecReplay.       *)
(***************************************************************************)
\* main.go: the bounds of the slice the report takes of the measured bytes,
\* [len(e.MeasuredBytes)-e.MeasuredTrailingBytesCount : len(e.MeasuredBytes)];
\* a slice out of range aborts the process
reportedSliceInRange(v) ==
    /\ Len(v.MeasuredBytes) - v.MeasuredTrailingBytesCount >= 0
    /\ Len(v.MeasuredBytes) - v.MeasuredTrailingBytesCount <= Len(v.MeasuredBytes)

\* main.go: the trailing bytes the report prints for a validated event
reportedTrailingBytes(v) ==
    SubSeq(v.MeasuredBytes, Len(v.MeasuredBytes) - v.MeasuredTrailingBytesCount + 1,
           Len(v.MeasuredBytes))

\* the count bytes of the payload that follow the part its decoder consumed
BytesAfterDecoded(e, count) ==
    SubSeq(e.Data, ConsumedBytes(e, makeEventData(e.PCRIndex, e.EventType, e.Data)) + 1,
           ConsumedBytes(e, makeEventData(e.PCRIndex, e.EventType, e.Data)) + count)

\* C25: for every validated event, 0 <= measured_trailing_bytes_count <=
\* length of measured_bytes, and when the count is not zero the last
\* measured_trailing_bytes_count bytes of measured_bytes are the bytes that
\* follow the decoded event data; the slice of the report is within bounds.
C25_TrailingBytesWithinMeasured ==
    \A k \in 1..Len(validated) :
        /\ validated[k].MeasuredTrailingBytesCount >= 0
        /\ validated[k].MeasuredTrailingBytesCount <= Len(validated[k].MeasuredBytes)
        /\ reportedSliceInRange(validated[k])
        /\ validated[k].MeasuredTrailingBytesCount > 0 =>
              /\ reportedTrailingBytes(validated[k])
                     = BytesAfterDecoded(log[k], validated[k].MeasuredTrailingBytesCount)
              /\ Len(reportedTrailingBytes(validated[k]))
                     = validated[k].MeasuredTrailingBytesCount

\* a variable event was validated with one trailing byte, fewer than follow
\* its decoded structure
C25_Witness ==
    \E k \in 1..Len(validated) :
        /\ validated[k].MeasuredTrailingBytesCount = 1
        /\ Len(validated[k].MeasuredBytes) < Len(log[k].Data)
        /\ reportedTrailingBytes(validated[k]) = <<0>>

====
